---- MODULE Spec2Model ----
(***************************************************************************)
(* cryptoGo: the single-writer sequencer (internal/engine/sequencer.go,    *)
(* gap-tolerant variant), the SMA crossover strategy it drives, the        *)
(* write-ahead event store it persists to and the replayer that rebuilds   *)
(* state from that store.                                                  *)
(***************************************************************************)
EXTENDS Integers, Sequences, FiniteSets, TLC

(***************************************************************************)
(* Bounds of the model.                                                    *)
(***************************************************************************)
\* Width in bits standing for Go's 64-bit words (uint64 seq, int64 price):
\* the arithmetic below wraps and overflows at this width exactly as the
\* code's does at 64.
WordBits == 6
\* Capacity of the inbox channel (NewSequencer's inboxSize).
InboxSize == 1
\* Number of events the producers hand to the inbox in one run.
MaxSent == 2
\* Short period of the strategy; the long period is one more.
ShortPeriod == 1
\* Number of sequence numbers the producers draw from the shared counter.
MaxStamped == 3
\* Number of calls made on the Balance.
MaxCalls == 4
\* Number of connections a gateway worker dials.
MaxDials == 2
\* Number of unique symbols SyncAssets starts a goroutine for.
NumSymbols == 6
\* Length of the slice handed to ProcessTickers.
MaxTickers == 2
\* Digits after the point kept by decimal.Div (16 in the library).
DivisionPrecision == 2

LongPeriod == ShortPeriod + 1

\* sequencer.go:94  "if diff <= 10"
GapTolerance == 10
\* Capacity of SyncAssets' semaphore channel.
SemaphoreCap == 5
\* sma_cross: quant.QtySats(10000)
OrderQty == 10000

UintMod == 2 ^ WordBits
MaxInt64 == 2 ^ (WordBits - 1) - 1
MinInt64 == 0 - 2 ^ (WordBits - 1)

Symbols == {"BTC-USDT", "ETH-USDT"}
StrategySymbol == "BTC-USDT"
Prices == {1, 3, MaxInt64}
Qtys == {5}
Stamps == {7}
\* Sequence numbers carried by the events: the first two, and the three
\* around the gap tolerance as seen from them.
SeqDomain == {1, 2, GapTolerance + 1, GapTolerance + 2, GapTolerance + 3}

\* event.Event: the common header {Seq, Ts} and the variant's payload.
MarketUpdateEvents ==
    [typ : {"MarketUpdate"}, seq : SeqDomain, ts : Stamps,
     symbol : Symbols, price : Prices, qty : Qtys]

OtherEvents ==
    [typ : {"OrderUpdate", "Unknown"}, seq : SeqDomain, ts : Stamps,
     symbol : {""}, price : {0}, qty : {0}]

Events == MarketUpdateEvents \cup OtherEvents

\* The two ways the repository constructs a sequencer: main.go passes a
\* store, a strategy and a callback; the tests pass nil for all three.
Configs ==
    { [store |-> TRUE, strategy |-> TRUE, observer |-> TRUE],
      [store |-> FALSE, strategy |-> FALSE, observer |-> FALSE] }

VARIABLES
    cfg,          \* which of store / strategy / onStateUpdate are non-nil
    inbox,        \* s.inbox: the buffered channel
    sent,         \* events produced so far
    cancelled,    \* ctx.Done() is closed
    pc,           \* Run: "running", "stopped" (returned), "halted" (panicked)
    nextSeq,      \* s.nextSeq
    markets,      \* s.markets
    strat,        \* the state of s.strategy
    wal,          \* rows of the event store, in append order
    saveCalls,    \* seq of every event handed to SaveEvent
    actions,      \* STRATEGY_ACTION stream
    notes,        \* states handed to onStateUpdate
    stratCalls,   \* number of OnMarketUpdate invocations
    steps,        \* steps of the most recent processEvent, in order
    lastApplied,  \* seq of the most recently dispatched event, 0 if none
    received,     \* events taken from the inbox
    dumps,        \* panic_dump.json contents written
    lastPanic,    \* panic value recovered by Run
    rpc,          \* replayer: "replaying", "done", "fatal"
    rCursor,      \* seq of the last WAL row the replayer read
    rNextSeq,     \* replay sequencer: nextSeq
    rMarkets,     \* replay sequencer: markets
    rStrat,       \* replay sequencer: strategy state
    rActions,     \* replay sequencer: STRATEGY_ACTION stream
    rNotes,       \* replay sequencer: states handed to onStateUpdate
    poolOut,      \* events acquired from the pool and not released
    hpc,          \* position inside processEvent / handleMarketUpdate
    hev,          \* the event being handled
    hpre,         \* what GetMarketState returned for its symbol before it
    snap,         \* result of the external reader's last GetMarketState
    seqCounter,   \* main.go: the uint64 the producers share
    ppc,          \* position of each producer
    pheld,        \* the event each producer is about to send
    alloc,        \* the numbers NextSeq returned to each producer
    heap,             \* the event objects allocated so far, by address
    held,             \* addresses a caller got from Acquire and still holds
    marketUpdatePool, \* addresses resting in marketUpdatePool
    orderUpdatePool,  \* addresses resting in orderUpdatePool
    acquired,         \* what the most recent Acquire returned
    written,          \* addresses a holder has populated at some time
    poolOp,           \* the most recent pool operation
    bal,          \* a Balance of the balance book
    balOp,        \* the most recent call on it and how it ended
    balPc,        \* "running", or "halted" once a call panicked
    sma,          \* a strategy instance driven directly
    fed,          \* prices of its symbol it has been given, oldest first
    smaOut,       \* its most recent call and what the call returned
    smaPc,        \* "unbuilt", "ready", "rejected", "halted"
    recovered,    \* lastSeq given to RecoverState, -1 before the call
    gwKind,       \* which worker type Connect was called on, "none" before
    gwCancelled,  \* the worker's ctx is cancelled
    wconn,        \* w.conn: a connection, or 0 for nil
    wconnected,   \* w.connected
    closedConns,  \* connections on which Close was called
    dials,        \* connections dialled so far
    lpc,          \* position of the connectionLoop goroutine
    llocal,       \* the conn variable local to connect / readLoop
    pings,        \* pingLoop goroutines running
    dpc,          \* position of the caller of Disconnect
    exchangeRate, \* PriceService.exchangeRate
    marketData,   \* PriceService.marketData, by symbol
    syncPc,        \* position of SyncAssets
    spawned,       \* goroutines SyncAssets has started
    wg,            \* the WaitGroup counter
    semaphore,     \* values buffered in the semaphore channel
    syncCancelled, \* SyncAssets' ctx is cancelled
    gpc,           \* position of each goroutine
    worked,        \* goroutines that wrote metadata and downloaded
    sawCancel,     \* goroutines whose select took ctx.Done()
    spotPc,        \* position of SpotWorker.handleMessage
    spotEv,        \* the event handleMessage holds, or Nil
    spotInbox,     \* the inbox, as the references queued in it
    spotProcessing, \* the event the sequencer is processing, or Nil
    spotCount,     \* events handleMessage has populated
    enqueuedSeqs,  \* seqs of the events handleMessage enqueued
    releasedSeqs,  \* seqs of the events handleMessage released
    vExpected,     \* s.nextSeq when ValidateSequence was called
    vSeq,          \* the evSeq it was called with
    vOut           \* what the call did

liveVars == <<inbox, sent, cancelled, pc, nextSeq, markets, strat, wal,
              saveCalls, actions, notes, stratCalls, steps, lastApplied,
              received, dumps, lastPanic, poolOut>>
replayVars == <<rpc, rCursor, rNextSeq, rMarkets, rStrat, rActions, rNotes>>
readerVars == <<hpc, hev, hpre, snap>>
producerVars == <<seqCounter, ppc, pheld, alloc>>
poolVars == <<heap, held, marketUpdatePool, orderUpdatePool, acquired, written,
              poolOp>>
balanceVars == <<bal, balOp, balPc>>
smaVars == <<sma, fed, smaOut, smaPc>>
recoverVars == <<recovered>>
gatewayVars == <<gwKind, gwCancelled, wconn, wconnected, closedConns, dials, lpc,
                 llocal, pings, dpc>>
priceVars == <<exchangeRate, marketData>>
syncVars == <<syncPc, spawned, wg, semaphore, syncCancelled, gpc, worked, sawCancel>>
spotVars == <<spotPc, spotEv, spotInbox, spotProcessing, spotCount, enqueuedSeqs,
              releasedSeqs>>
validateVars == <<vExpected, vSeq, vOut>>
laterVars == <<recoverVars, gatewayVars, priceVars, syncVars, spotVars, validateVars>>
unitVars == <<poolVars, balanceVars, smaVars, laterVars>>
vars == <<cfg, liveVars, replayVars, readerVars, producerVars, unitVars>>

(***************************************************************************)
(* Checked arithmetic (pkg/safe).                                          *)
(***************************************************************************)
InInt64(x) == x >= MinInt64 /\ x <= MaxInt64

SafeAdd(a, b) == [ok |-> InInt64(a + b), val |-> a + b]

SafeSub(a, b) == [ok |-> InInt64(a - b), val |-> a - b]

\* Go's integer division truncates toward zero.
TruncDiv(a, b) ==
    IF (a >= 0) = (b > 0) THEN (IF a >= 0 THEN a ELSE 0 - a) \div (IF b > 0 THEN b ELSE 0 - b)
    ELSE 0 - ((IF a >= 0 THEN a ELSE 0 - a) \div (IF b > 0 THEN b ELSE 0 - b))

SafeDiv(a, b) ==
    IF b = 0 THEN [ok |-> FALSE, val |-> 0]
    ELSE [ok |-> InInt64(TruncDiv(a, b)), val |-> TruncDiv(a, b)]


(***************************************************************************)
(* SMA crossover strategy (internal/strategy).                             *)
(***************************************************************************)
NoActions == << >>

\* NewSMACrossStrategy that accepts equal periods.
NewSMACrossStrategy_AllowEqual(symbol, shortPeriod, longPeriod) ==
    IF shortPeriod > longPeriod
    THEN [panic |-> TRUE,
          strat |-> [symbol |-> symbol, shortPeriod |-> shortPeriod,
                     longPeriod |-> longPeriod, prices |-> << >>, head |-> 0,
                     count |-> 0, sum |-> 0, prevShortSMA |-> 0, prevLongSMA |-> 0]]
    ELSE [panic |-> FALSE,
          strat |-> [symbol |-> symbol, shortPeriod |-> shortPeriod,
                     longPeriod |-> longPeriod,
                     prices |-> [i \in 1 .. longPeriod |-> 0], head |-> 0,
                     count |-> 0, sum |-> 0, prevShortSMA |-> 0, prevLongSMA |-> 0]]

\* NewSMACrossStrategy: panics when shortPeriod >= longPeriod.
NewSMACrossStrategy(symbol, shortPeriod, longPeriod) ==
    IF shortPeriod >= longPeriod
    THEN [panic |-> TRUE,
          strat |-> [symbol |-> symbol, shortPeriod |-> shortPeriod,
                     longPeriod |-> longPeriod, prices |-> << >>, head |-> 0,
                     count |-> 0, sum |-> 0, prevShortSMA |-> 0, prevLongSMA |-> 0]]
    ELSE [panic |-> FALSE,
          strat |-> [symbol |-> symbol, shortPeriod |-> shortPeriod,
                     longPeriod |-> longPeriod,
                     prices |-> [i \in 1 .. longPeriod |-> 0], head |-> 0,
                     count |-> 0, sum |-> 0, prevShortSMA |-> 0, prevLongSMA |-> 0]]

\* The loop of calculateShortSMA stopping at index 0 instead of wrapping to
\* the end of the buffer.
RECURSIVE ShortSum_NoWrap(_, _, _, _)
ShortSum_NoWrap(s, i, idx, acc) ==
    IF i = s.shortPeriod THEN [ok |-> TRUE, val |-> acc]
    ELSE LET j == IF idx - 1 < 0 THEN 0 ELSE idx - 1
             a == SafeAdd(acc, s.prices[j + 1])
         IN IF a.ok THEN ShortSum_NoWrap(s, i + 1, j, a.val) ELSE [ok |-> FALSE, val |-> 0]

\* The loop of calculateShortSMA: i iterations done, idx the last index read
\* (0-based), acc the running sum; ok turns FALSE when SafeAdd overflows.
RECURSIVE ShortSum(_, _, _, _)
ShortSum(s, i, idx, acc) ==
    IF i = s.shortPeriod THEN [ok |-> TRUE, val |-> acc]
    ELSE LET j == IF idx - 1 < 0 THEN s.longPeriod - 1 ELSE idx - 1
             a == SafeAdd(acc, s.prices[j + 1])
         IN IF a.ok THEN ShortSum(s, i + 1, j, a.val) ELSE [ok |-> FALSE, val |-> 0]

calculateShortSMA(s) ==
    LET t == ShortSum(s, 0, s.head, 0)
    IN IF t.ok THEN SafeDiv(t.val, s.shortPeriod) ELSE [ok |-> FALSE, val |-> 0]

\* The cross tests with a strict comparison of the previous averages.
CrossActions_StrictPrev(s, state, currShortSMA, currLongSMA) ==
    (IF /\ s.prevShortSMA # 0 /\ s.prevLongSMA # 0
        /\ s.prevShortSMA < s.prevLongSMA /\ currShortSMA > currLongSMA
     THEN << [type |-> "BUY", symbol |-> s.symbol, price |-> state.price, qty |-> OrderQty] >>
     ELSE NoActions)
    \o
    (IF /\ s.prevShortSMA # 0 /\ s.prevLongSMA # 0
        /\ s.prevShortSMA > s.prevLongSMA /\ currShortSMA < currLongSMA
     THEN << [type |-> "SELL", symbol |-> s.symbol, price |-> state.price, qty |-> OrderQty] >>
     ELSE NoActions)

\* OnMarketUpdate, step 5: the golden-cross and dead-cross tests.
CrossActions(s, state, currShortSMA, currLongSMA) ==
    (IF /\ s.prevShortSMA # 0 /\ s.prevLongSMA # 0
        /\ s.prevShortSMA <= s.prevLongSMA /\ currShortSMA > currLongSMA
     THEN << [type |-> "BUY", symbol |-> s.symbol, price |-> state.price, qty |-> OrderQty] >>
     ELSE NoActions)
    \o
    (IF /\ s.prevShortSMA # 0 /\ s.prevLongSMA # 0
        /\ s.prevShortSMA >= s.prevLongSMA /\ currShortSMA < currLongSMA
     THEN << [type |-> "SELL", symbol |-> s.symbol, price |-> state.price, qty |-> OrderQty] >>
     ELSE NoActions)

\* OnMarketUpdate, steps 4-6, given the two averages (ok is FALSE when the
\* checked arithmetic computing one of them panicked).
Signal(s, state, currLong, currShort) ==
    IF ~currLong.ok \/ ~currShort.ok
    THEN [strat |-> s, actions |-> NoActions, panic |-> TRUE]
    ELSE [strat |-> [s EXCEPT !.prevShortSMA = currShort.val, !.prevLongSMA = currLong.val],
          actions |-> CrossActions(s, state, currShort.val, currLong.val),
          panic |-> FALSE]

\* OnMarketUpdate without step 3: the averages are computed and compared
\* from the first price on.
Evaluate_NoWarmup(s, state) ==
    Signal(s, state, SafeDiv(s.sum, s.longPeriod), calculateShortSMA(s))

\* OnMarketUpdate, step 3 on: nothing until the buffer is full.
Evaluate(s, state) ==
    IF s.count < s.longPeriod
    THEN [strat |-> s, actions |-> NoActions, panic |-> FALSE]
    ELSE Signal(s, state, SafeDiv(s.sum, s.longPeriod), calculateShortSMA(s))

\* OnMarketUpdate, step 2: write the price at head, add it to sum (add is
\* the SafeAdd result), move head, count up to longPeriod.
WritePrice(s, state, add) ==
    IF ~add.ok
    THEN [strat |-> [s EXCEPT !.prices[s.head + 1] = state.price],
          actions |-> NoActions, panic |-> TRUE]
    ELSE Evaluate([s EXCEPT !.prices[s.head + 1] = state.price,
                            !.sum = add.val,
                            !.head = (s.head + 1) % s.longPeriod,
                            !.count = IF s.count < s.longPeriod THEN s.count + 1 ELSE s.count],
                  state)

\* OnMarketUpdate that never takes the oldest price out of sum.
DropOldest_Keep(s, state, sub) ==
    WritePrice(s, state, SafeAdd(s.sum, state.price))

\* OnMarketUpdate, step 2: when full, take the oldest price out of sum (sub
\* is the SafeSub result).
DropOldest(s, state, sub) ==
    IF ~sub.ok
    THEN [strat |-> s, actions |-> NoActions, panic |-> TRUE]
    ELSE WritePrice([s EXCEPT !.sum = sub.val], state, SafeAdd(sub.val, state.price))

\* OnMarketUpdate without step 1, the filter by symbol.
OnMarketUpdate_NoFilter(s, state) ==
    DropOldest(s, state,
               IF s.count = s.longPeriod
               THEN SafeSub(s.sum, s.prices[s.head + 1])
               ELSE [ok |-> TRUE, val |-> s.sum])

\* OnMarketUpdate: the new strategy state, the actions returned, and whether
\* a checked operation panicked (the state then holds the writes made so far).
OnMarketUpdate(s, state) ==
    IF state.symbol # s.symbol
    THEN [strat |-> s, actions |-> NoActions, panic |-> FALSE]
    ELSE DropOldest(s, state,
                    IF s.count = s.longPeriod
                    THEN SafeSub(s.sum, s.prices[s.head + 1])
                    ELSE [ok |-> TRUE, val |-> s.sum])

(***************************************************************************)
(* Event store (internal/storage): the write-ahead log.                    *)
(***************************************************************************)
WalSeqs(w) == {w[i].seq : i \in 1 .. Len(w)}

\* SaveEvent: one row per event, keyed by seq (PRIMARY KEY); ioOk is FALSE
\* when the database write fails.
SaveEvent(w, ev, ioOk) ==
    IF ~ioOk \/ ev.seq \in WalSeqs(w)
    THEN [err |-> TRUE, wal |-> w]
    ELSE [err |-> FALSE, wal |-> Append(w, ev)]

\* The row an ascending iteration returns after the row with seq `after`.
HasRowAfter(w, after) == \E i \in 1 .. Len(w) : w[i].seq > after

NextRowAfter(w, after) ==
    LET i == CHOOSE k \in 1 .. Len(w) :
                 /\ w[k].seq > after
                 /\ \A j \in 1 .. Len(w) : w[j].seq > after => w[j].seq >= w[k].seq
    IN w[i]

(***************************************************************************)
(* Sequencer (internal/engine/sequencer.go).                               *)
(***************************************************************************)
\* int64(x) of a uint64 x.
ToInt64(x) == IF x >= UintMod \div 2 THEN x - UintMod ELSE x

\* The result of an int64 subtraction, which wraps.
WrapInt64(x) == ((x - MinInt64) % UintMod) + MinInt64

\* ValidateSequence with the tolerance test off by one (diff < 10).
ValidateSequence_OffByOne(expected, evSeq) ==
    LET diff == WrapInt64(ToInt64(evSeq) - ToInt64(expected))
    IN  IF evSeq = expected
        THEN [nextSeq |-> expected, panic |-> FALSE, log |-> "none"]
        ELSE IF diff < 0
        THEN [nextSeq |-> expected, panic |-> FALSE, log |-> "SEQUENCE_DUPLICATE_IGNORED"]
        ELSE IF diff > 0 /\ diff < GapTolerance
        THEN [nextSeq |-> evSeq, panic |-> FALSE, log |-> "SEQUENCE_GAP_TOLERATED"]
        ELSE [nextSeq |-> expected, panic |-> TRUE, log |-> "SEQUENCE_GAP_FATAL"]

\* ValidateSequence with the fast-forward made before the size of the gap
\* is looked at, and the panic left out.
ValidateSequence_NoLimit(expected, evSeq) ==
    LET diff == WrapInt64(ToInt64(evSeq) - ToInt64(expected))
    IN  IF evSeq = expected
        THEN [nextSeq |-> expected, panic |-> FALSE, log |-> "none"]
        ELSE IF diff < 0
        THEN [nextSeq |-> expected, panic |-> FALSE, log |-> "SEQUENCE_DUPLICATE_IGNORED"]
        ELSE [nextSeq |-> evSeq, panic |-> FALSE, log |-> "SEQUENCE_GAP_TOLERATED"]

\* ValidateSequence: the nextSeq it leaves, whether it panics, what it logs.
ValidateSequence(expected, evSeq) ==
    LET diff == WrapInt64(ToInt64(evSeq) - ToInt64(expected))
    IN  IF evSeq = expected
        THEN [nextSeq |-> expected, panic |-> FALSE, log |-> "none"]
        ELSE IF diff < 0
        THEN [nextSeq |-> expected, panic |-> FALSE, log |-> "SEQUENCE_DUPLICATE_IGNORED"]
        ELSE IF diff > 0 /\ diff <= GapTolerance
        THEN [nextSeq |-> evSeq, panic |-> FALSE, log |-> "SEQUENCE_GAP_TOLERATED"]
        ELSE IF diff > 0
        THEN [nextSeq |-> expected, panic |-> TRUE, log |-> "SEQUENCE_GAP_FATAL"]
        ELSE [nextSeq |-> expected, panic |-> FALSE, log |-> "none"]

\* s.markets[sym] = state
MapPut(m, sym, state) ==
    [k \in (DOMAIN m) \cup {sym} |-> IF k = sym THEN state ELSE m[k]]

NewMarketState(sym) == [symbol |-> sym, price |-> 0, qty |-> 0, ts |-> 0]

\* handleMarketUpdate with the observer notified before the strategy runs.
handleMarketUpdate_NotifyFirst(c, m, st, e) ==
    LET state0 == IF e.symbol \in DOMAIN m THEN m[e.symbol] ELSE NewMarketState(e.symbol)
        state == [state0 EXCEPT !.price = e.price, !.qty = e.qty, !.ts = e.ts]
        r == IF c.strategy THEN OnMarketUpdate(st, state)
             ELSE [strat |-> st, actions |-> NoActions, panic |-> FALSE]
    IN  [markets |-> MapPut(m, e.symbol, state), strat |-> r.strat, actions |-> r.actions,
         notes |-> IF c.observer THEN << state >> ELSE << >>,
         stratCalls |-> IF c.strategy THEN 1 ELSE 0,
         steps |-> << "mutate" >>
                   \o (IF c.observer THEN << "notify" >> ELSE << >>)
                   \o (IF c.strategy THEN << "strategy" >> ELSE << >>),
         panic |-> r.panic]

\* handleMarketUpdate: mutate the entry, invoke the strategy, notify the
\* observer; `steps` lists what was done, in the order it was done.
handleMarketUpdate(c, m, st, e) ==
    LET state0 == IF e.symbol \in DOMAIN m THEN m[e.symbol] ELSE NewMarketState(e.symbol)
        state == [state0 EXCEPT !.price = e.price, !.qty = e.qty, !.ts = e.ts]
        m1 == MapPut(m, e.symbol, state)
        r == IF c.strategy THEN OnMarketUpdate(st, state)
             ELSE [strat |-> st, actions |-> NoActions, panic |-> FALSE]
        notify == c.observer /\ ~r.panic
    IN  [markets |-> m1, strat |-> r.strat, actions |-> r.actions,
         notes |-> IF notify THEN << state >> ELSE << >>,
         stratCalls |-> IF c.strategy THEN 1 ELSE 0,
         steps |-> << "mutate" >>
                   \o (IF c.strategy THEN << "strategy" >> ELSE << >>)
                   \o (IF notify THEN << "notify" >> ELSE << >>),
         panic |-> r.panic]

\* The switch with an OrderUpdate handled as a MarketUpdate.
Dispatch_OrderAsMarket(c, m, st, ev) ==
    IF ev.typ \in {"MarketUpdate", "OrderUpdate"} THEN handleMarketUpdate(c, m, st, ev)
    ELSE [markets |-> m, strat |-> st, actions |-> NoActions, notes |-> << >>,
          stratCalls |-> 0, steps |-> << >>, panic |-> FALSE]

\* The switch on the event's type shared by processEvent and ReplayEvent.
Dispatch(c, m, st, ev) ==
    IF ev.typ = "MarketUpdate" THEN handleMarketUpdate(c, m, st, ev)
    ELSE [markets |-> m, strat |-> st, actions |-> NoActions, notes |-> << >>,
          stratCalls |-> 0, steps |-> << >>, panic |-> FALSE]

\* processEvent on the sequencer state q = [nextSeq, markets, strat, wal]:
\* the state it leaves, what it emitted, and the panic it raised ("none" if
\* it returned).
processEvent(c, q, ev, ioOk) ==
    LET v == ValidateSequence(q.nextSeq, ev.seq)
        sv == IF c.store THEN SaveEvent(q.wal, ev, ioOk) ELSE [err |-> FALSE, wal |-> q.wal]
        d == Dispatch(c, q.markets, q.strat, ev)
        quiet == [nextSeq |-> q.nextSeq, markets |-> q.markets, strat |-> q.strat,
                  wal |-> q.wal, saveCalls |-> << >>, actions |-> NoActions,
                  notes |-> << >>, stratCalls |-> 0, applied |-> FALSE,
                  steps |-> << "validate" >>, panic |-> "none"]
        saved == IF c.store THEN << ev.seq >> ELSE << >>
        persist == IF c.store THEN << "persist" >> ELSE << >>
    IN  IF v.panic
        THEN [quiet EXCEPT !.panic = "SEQUENCE_GAP_FATAL"]
        ELSE IF sv.err
        THEN [quiet EXCEPT !.nextSeq = v.nextSeq, !.saveCalls = saved,
                           !.steps = << "validate" >> \o persist,
                           !.panic = "PERSISTENCE_FAILURE"]
        ELSE IF d.panic
        THEN [nextSeq |-> v.nextSeq, markets |-> d.markets, strat |-> d.strat,
              wal |-> sv.wal, saveCalls |-> saved, actions |-> d.actions,
              notes |-> d.notes, stratCalls |-> d.stratCalls, applied |-> TRUE,
              steps |-> << "validate" >> \o persist \o d.steps,
              panic |-> "OVERFLOW"]
        ELSE [nextSeq |-> (v.nextSeq + 1) % UintMod, markets |-> d.markets,
              strat |-> d.strat, wal |-> sv.wal, saveCalls |-> saved,
              actions |-> d.actions, notes |-> d.notes,
              stratCalls |-> d.stratCalls, applied |-> TRUE,
              steps |-> << "validate" >> \o persist \o d.steps \o << "advance" >>,
              panic |-> "none"]

\* The strict processEvent rejecting only events ahead of nextSeq.
StrictProcessEvent_AheadOnly(c, q, ev, ioOk) ==
    IF ev.seq > q.nextSeq
    THEN [nextSeq |-> q.nextSeq, markets |-> q.markets, strat |-> q.strat,
          wal |-> q.wal, saveCalls |-> << >>, actions |-> NoActions,
          notes |-> << >>, stratCalls |-> 0, applied |-> FALSE,
          steps |-> << "validate" >>, panic |-> "SEQUENCE_GAP_DETECTED"]
    ELSE processEvent(c, [q EXCEPT !.nextSeq = ev.seq], ev, ioOk)

\* processEvent of the sequencer that halts on every gap: seq must equal
\* nextSeq, then persist, dispatch, advance.  Same result shape as
\* processEvent.
StrictProcessEvent(c, q, ev, ioOk) ==
    LET sv == IF c.store THEN SaveEvent(q.wal, ev, ioOk) ELSE [err |-> FALSE, wal |-> q.wal]
        d == Dispatch(c, q.markets, q.strat, ev)
        quiet == [nextSeq |-> q.nextSeq, markets |-> q.markets, strat |-> q.strat,
                  wal |-> q.wal, saveCalls |-> << >>, actions |-> NoActions,
                  notes |-> << >>, stratCalls |-> 0, applied |-> FALSE,
                  steps |-> << "validate" >>, panic |-> "none"]
        saved == IF c.store THEN << ev.seq >> ELSE << >>
        persist == IF c.store THEN << "persist" >> ELSE << >>
    IN  IF ev.seq # q.nextSeq
        THEN [quiet EXCEPT !.panic = "SEQUENCE_GAP_DETECTED"]
        ELSE IF sv.err
        THEN [quiet EXCEPT !.saveCalls = saved,
                           !.steps = << "validate" >> \o persist,
                           !.panic = "PERSISTENCE_FAILURE"]
        ELSE IF d.panic
        THEN [nextSeq |-> q.nextSeq, markets |-> d.markets, strat |-> d.strat,
              wal |-> sv.wal, saveCalls |-> saved, actions |-> d.actions,
              notes |-> d.notes, stratCalls |-> d.stratCalls, applied |-> TRUE,
              steps |-> << "validate" >> \o persist \o d.steps,
              panic |-> "OVERFLOW"]
        ELSE [nextSeq |-> (q.nextSeq + 1) % UintMod, markets |-> d.markets,
              strat |-> d.strat, wal |-> sv.wal, saveCalls |-> saved,
              actions |-> d.actions, notes |-> d.notes,
              stratCalls |-> d.stratCalls, applied |-> TRUE,
              steps |-> << "validate" >> \o persist \o d.steps \o << "advance" >>,
              panic |-> "none"]

\* ReplayEvent that only rejects events ahead of nextSeq.
ReplayEvent_AheadOnly(c, q, ev) ==
    LET d == Dispatch(c, q.markets, q.strat, ev)
    IN  IF ev.seq > q.nextSeq
        THEN [nextSeq |-> q.nextSeq, markets |-> q.markets, strat |-> q.strat,
              actions |-> NoActions, notes |-> << >>, panic |-> "REPLAY_GAP_DETECTED"]
        ELSE IF d.panic
        THEN [nextSeq |-> q.nextSeq, markets |-> d.markets, strat |-> d.strat,
              actions |-> d.actions, notes |-> d.notes, panic |-> "OVERFLOW"]
        ELSE [nextSeq |-> (q.nextSeq + 1) % UintMod, markets |-> d.markets,
              strat |-> d.strat, actions |-> d.actions, notes |-> d.notes,
              panic |-> "none"]

\* ReplayEvent that dispatches without the observer installed.
ReplayEvent_NoObserver(c, q, ev) ==
    LET d == Dispatch([c EXCEPT !.observer = FALSE], q.markets, q.strat, ev)
    IN  IF ev.seq # q.nextSeq
        THEN [nextSeq |-> q.nextSeq, markets |-> q.markets, strat |-> q.strat,
              actions |-> NoActions, notes |-> << >>, panic |-> "REPLAY_GAP_DETECTED"]
        ELSE IF d.panic
        THEN [nextSeq |-> q.nextSeq, markets |-> d.markets, strat |-> d.strat,
              actions |-> d.actions, notes |-> d.notes, panic |-> "OVERFLOW"]
        ELSE [nextSeq |-> (q.nextSeq + 1) % UintMod, markets |-> d.markets,
              strat |-> d.strat, actions |-> d.actions, notes |-> d.notes,
              panic |-> "none"]

\* ReplayEvent on the replay sequencer q = [nextSeq, markets, strat].
ReplayEvent(c, q, ev) ==
    LET d == Dispatch(c, q.markets, q.strat, ev)
    IN  IF ev.seq # q.nextSeq
        THEN [nextSeq |-> q.nextSeq, markets |-> q.markets, strat |-> q.strat,
              actions |-> NoActions, notes |-> << >>, panic |-> "REPLAY_GAP_DETECTED"]
        ELSE IF d.panic
        THEN [nextSeq |-> q.nextSeq, markets |-> d.markets, strat |-> d.strat,
              actions |-> d.actions, notes |-> d.notes, panic |-> "OVERFLOW"]
        ELSE [nextSeq |-> (q.nextSeq + 1) % UintMod, markets |-> d.markets,
              strat |-> d.strat, actions |-> d.actions, notes |-> d.notes,
              panic |-> "none"]

\* GetMarketState that reports an unknown symbol as present, with the zero
\* state.
GetMarketState_ZeroWhenMissing(m, symbol) ==
    IF symbol \in DOMAIN m THEN [ok |-> TRUE, state |-> m[symbol]]
    ELSE [ok |-> TRUE, state |-> NewMarketState("")]

\* GetMarketState: a copy of the entry and true, or the zero MarketState and
\* false for a symbol the map does not hold.
GetMarketState(m, symbol) ==
    IF symbol \in DOMAIN m THEN [ok |-> TRUE, state |-> m[symbol]]
    ELSE [ok |-> FALSE, state |-> NewMarketState("")]

\* DumpState: the content of the dump file.
DumpState(n, m) == [next_seq |-> n, markets |-> m]

\* RecoverState(lastSeq): the nextSeq it leaves; nothing is done without a
\* store.
RecoverState(c, n, lastSeq) ==
    IF ~c.store THEN n ELSE (lastSeq + 1) % UintMod

(***************************************************************************)
(* Event pool (internal/event): two sync.Pools of event objects.           *)
(***************************************************************************)
\* Addresses the allocator hands out for the objects of each kind, and the
\* null reference.
MarketAddrs == {"m1", "m2"}
OrderAddrs == {"o1", "o2"}
Nil == "nil"

\* &MarketUpdateEvent{} and &OrderUpdateEvent{}: every field at its zero value.
ZeroMarketUpdateEvent ==
    [Seq |-> 0, Ts |-> 0, Symbol |-> "", PriceMicros |-> 0, QtySats |-> 0,
     Exchange |-> ""]

ZeroOrderUpdateEvent ==
    [Seq |-> 0, Ts |-> 0, OrderID |-> "", Status |-> "", PriceMicros |-> 0,
     AccumulatedQtySats |-> 0]

\* What a holder writes into an event it acquired (spot_worker.go:177-182).
PopulatedMarketUpdateEvents ==
    [Seq : {1}, Ts : Stamps, Symbol : {"BTC-USDT"}, PriceMicros : {3},
     QtySats : Qtys, Exchange : {"BITGET_S", "UPBIT"}]

PopulatedOrderUpdateEvents ==
    [Seq : {2}, Ts : Stamps, OrderID : {"ord-1"}, Status : {"FILLED"},
     PriceMicros : {3}, AccumulatedQtySats : Qtys]

\* The heap h with the object at address a set to ev.
HeapPut(h, a, ev) == [k \in (DOMAIN h) \cup {a} |-> IF k = a THEN ev ELSE h[k]]

\* marketUpdatePool.Get() returning address a: an object resting in the
\* pool, or one New allocates; ok is FALSE when Get cannot return a.
AcquireMarketUpdateEvent(h, pool, a) ==
    IF a \in pool THEN [ok |-> TRUE, heap |-> h, pool |-> pool \ {a}]
    ELSE IF a \notin DOMAIN h
    THEN [ok |-> TRUE, heap |-> HeapPut(h, a, ZeroMarketUpdateEvent), pool |-> pool]
    ELSE [ok |-> FALSE, heap |-> h, pool |-> pool]

\* ReleaseMarketUpdateEvent that leaves Exchange as the holder set it.
ReleaseMarketUpdateEvent_KeepExchange(h, pool, ev) ==
    IF ev = Nil THEN [heap |-> h, pool |-> pool]
    ELSE [heap |-> [h EXCEPT ![ev].Seq = 0, ![ev].Ts = 0, ![ev].Symbol = "",
                             ![ev].PriceMicros = 0, ![ev].QtySats = 0],
          pool |-> pool \cup {ev}]

\* ReleaseMarketUpdateEvent(ev): nothing for nil; otherwise the six fields
\* are reset and the object is put back.
ReleaseMarketUpdateEvent(h, pool, ev) ==
    IF ev = Nil THEN [heap |-> h, pool |-> pool]
    ELSE [heap |-> [h EXCEPT ![ev].Seq = 0, ![ev].Ts = 0, ![ev].Symbol = "",
                             ![ev].PriceMicros = 0, ![ev].QtySats = 0,
                             ![ev].Exchange = ""],
          pool |-> pool \cup {ev}]

AcquireOrderUpdateEvent(h, pool, a) ==
    IF a \in pool THEN [ok |-> TRUE, heap |-> h, pool |-> pool \ {a}]
    ELSE IF a \notin DOMAIN h
    THEN [ok |-> TRUE, heap |-> HeapPut(h, a, ZeroOrderUpdateEvent), pool |-> pool]
    ELSE [ok |-> FALSE, heap |-> h, pool |-> pool]

ReleaseOrderUpdateEvent(h, pool, ev) ==
    IF ev = Nil THEN [heap |-> h, pool |-> pool]
    ELSE [heap |-> [h EXCEPT ![ev].Seq = 0, ![ev].Ts = 0, ![ev].OrderID = "",
                             ![ev].Status = "", ![ev].PriceMicros = 0,
                             ![ev].AccumulatedQtySats = 0],
          pool |-> pool \cup {ev}]

NoHeap == [k \in {} |-> ZeroMarketUpdateEvent]

\* Nothing acquired yet.
NoAcquire == [addr |-> Nil, ev |-> ZeroMarketUpdateEvent, recycled |-> FALSE]

(***************************************************************************)
(* Balance (internal/domain): one asset's funds.                           *)
(***************************************************************************)
\* &Balance{Symbol: symbol}, as BalanceBook.Get creates it.
NewBalance(symbol) ==
    [Symbol |-> symbol, AmountSats |-> 0, ReservedSats |-> 0, LastSeq |-> 0]

\* AvailableSats: total - reserved, by SafeSub.
AvailableSats(b) == SafeSub(b.AmountSats, b.ReservedSats)

\* Each operation yields the balance it leaves and the panic it raised
\* ("none" when it returned).
Credit(b, amountSats, seq) ==
    LET r == SafeAdd(b.AmountSats, amountSats)
    IN  IF ~r.ok THEN [bal |-> b, panic |-> "OVERFLOW"]
        ELSE [bal |-> [b EXCEPT !.AmountSats = r.val, !.LastSeq = seq],
              panic |-> "none"]

\* Debit that tests the amount against the total instead of the available
\* funds.
Debit_AgainstTotal(b, amountSats, seq) ==
    LET r == SafeSub(b.AmountSats, amountSats)
    IN  IF amountSats > b.AmountSats THEN [bal |-> b, panic |-> "BALANCE_INSUFFICIENT"]
        ELSE IF ~r.ok THEN [bal |-> b, panic |-> "OVERFLOW"]
        ELSE [bal |-> [b EXCEPT !.AmountSats = r.val, !.LastSeq = seq],
              panic |-> "none"]

Debit(b, amountSats, seq) ==
    LET av == AvailableSats(b)
        r == SafeSub(b.AmountSats, amountSats)
    IN  IF ~av.ok THEN [bal |-> b, panic |-> "OVERFLOW"]
        ELSE IF amountSats > av.val THEN [bal |-> b, panic |-> "BALANCE_INSUFFICIENT"]
        ELSE IF ~r.ok THEN [bal |-> b, panic |-> "OVERFLOW"]
        ELSE [bal |-> [b EXCEPT !.AmountSats = r.val, !.LastSeq = seq],
              panic |-> "none"]

Reserve(b, amountSats, seq) ==
    LET av == AvailableSats(b)
        r == SafeAdd(b.ReservedSats, amountSats)
    IN  IF ~av.ok THEN [bal |-> b, panic |-> "OVERFLOW"]
        ELSE IF amountSats > av.val
        THEN [bal |-> b, panic |-> "BALANCE_RESERVE_INSUFFICIENT"]
        ELSE IF ~r.ok THEN [bal |-> b, panic |-> "OVERFLOW"]
        ELSE [bal |-> [b EXCEPT !.ReservedSats = r.val, !.LastSeq = seq],
              panic |-> "none"]

Release(b, amountSats, seq) ==
    LET r == SafeSub(b.ReservedSats, amountSats)
    IN  IF amountSats > b.ReservedSats
        THEN [bal |-> b, panic |-> "BALANCE_RELEASE_EXCEEDS_RESERVED"]
        ELSE IF ~r.ok THEN [bal |-> b, panic |-> "OVERFLOW"]
        ELSE [bal |-> [b EXCEPT !.ReservedSats = r.val, !.LastSeq = seq],
              panic |-> "none"]

\* VerifyInvariant: the panic it raises, "none" when the balance passes.
VerifyInvariant(b) ==
    IF b.AmountSats < 0 THEN "BALANCE_INVARIANT_NEGATIVE_AMOUNT"
    ELSE IF b.ReservedSats < 0 THEN "BALANCE_INVARIANT_NEGATIVE_RESERVED"
    ELSE IF b.ReservedSats > b.AmountSats
    THEN "BALANCE_INVARIANT_RESERVED_EXCEEDS_AMOUNT"
    ELSE "none"

\* No call made yet.
NoBalanceCall == [op |-> "none", amountSats |-> 0, panic |-> "none"]

(***************************************************************************)
(* PriceService (internal/service/price_service.go).  A decimal is the     *)
(* integer number of 10^-DivisionPrecision units it holds; a nil pointer   *)
(* is a record with set = FALSE.                                           *)
(***************************************************************************)
PriceSymbols == {"BTC", "ETH"}
Exchanges == {"UPBIT", "BITGET_S", "BITGET_F"}
TickerPrices == {0, 1}
Rates == {0, 1, 2}
\* The futures price takes no part in the premium: one value.
Tickers ==
    {t \in [Symbol : PriceSymbols, Exchange : Exchanges, Price : TickerPrices] :
        t.Exchange = "BITGET_F" => t.Price = 1}

DecimalUnit == 10 ^ DivisionPrecision
NoTicker == [set |-> FALSE, Price |-> 0]
NoPremium == [set |-> FALSE, v |-> 0]
\* &domain.MarketData{Symbol: symbol}; exists is the map's membership.
NoMarketData ==
    [exists |-> FALSE, Upbit |-> NoTicker, BitgetS |-> NoTicker, BitgetF |-> NoTicker,
     Premium |-> NoPremium]

AbsInt(n) == IF n < 0 THEN -n ELSE n

\* decimal.Div: the quotient at DivisionPrecision digits, rounded half away
\* from zero.  a and b are in decimal units, b # 0.
DecimalDiv(a, b) ==
    LET n == a * DecimalUnit
        q == TruncDiv(n, b)
        r == n - q * b
    IN  IF 2 * AbsInt(r) < AbsInt(b) THEN q
        ELSE IF (n < 0) # (b < 0) THEN q - 1
        ELSE q + 1

\* 100 * (upbit - spot * rate) / (spot * rate) as the code computes it:
\* Sub, Div, then Mul by 100.
PremiumAt(upbit, spot, rate) ==
    100 * DecimalDiv((upbit - spot * rate) * DecimalUnit, spot * rate * DecimalUnit)

\* calculatePremium: nothing without both tickers, with a zero rate or a
\* zero krwPrice; else data.Premium = the premium at s.exchangeRate.
calculatePremium(data, rate) ==
    IF ~data.Upbit.set \/ ~data.BitgetS.set \/ rate = 0 THEN data
    ELSE IF data.BitgetS.Price * rate = 0 THEN data
    ELSE [data EXCEPT !.Premium =
            [set |-> TRUE, v |-> PremiumAt(data.Upbit.Price, data.BitgetS.Price, rate)]]

\* The body of ProcessTickers' loop for one ticker.
StoreTicker(md, ticker, rate) ==
    LET data == [md[ticker.Symbol] EXCEPT !.exists = TRUE]
        t == [set |-> TRUE, Price |-> ticker.Price]
        put == IF ticker.Exchange = "UPBIT" THEN [data EXCEPT !.Upbit = t]
               ELSE IF ticker.Exchange = "BITGET_S" THEN [data EXCEPT !.BitgetS = t]
               ELSE [data EXCEPT !.BitgetF = t]
    IN  [md EXCEPT ![ticker.Symbol] = calculatePremium(put, rate)]

RECURSIVE ProcessTickersFrom(_, _, _, _)
ProcessTickersFrom(md, tickers, i, rate) ==
    IF i > Len(tickers) THEN md
    ELSE ProcessTickersFrom(StoreTicker(md, tickers[i], rate), tickers, i + 1, rate)


(***************************************************************************)
(* A strategy instance constructed and driven directly.                    *)
(***************************************************************************)
\* No instance.
NoStrategy == NewSMACrossStrategy("", 0, 0).strat

\* ValidateSequence not called yet.
NoValidate == [nextSeq |-> 1, panic |-> FALSE, log |-> "uncalled"]

\* No call made yet.
NoCall == [op |-> "none", shortPeriod |-> 0, longPeriod |-> 0, symbol |-> "",
           price |-> 0, actions |-> NoActions, panic |-> FALSE,
           before |-> NoStrategy]

(***************************************************************************)
(* State after construction and the operations.                            *)
(***************************************************************************)
NoMarkets == [k \in {} |-> NewMarketState(k)]

\* No event in hand.
NoEvent == [typ |-> "None", seq |-> 0, ts |-> 0, symbol |-> "", price |-> 0, qty |-> 0]

\* The reader has not called GetMarketState yet.
NoSnap == [symbol |-> "", ok |-> FALSE, state |-> NewMarketState(""), fault |-> FALSE]

\* The goroutines main.go starts that send to the inbox: the exchange-rate
\* poller and the Upbit, Bitget spot and Bitget futures workers.
Producers == {"fx", "upbit", "spot", "futures"}

\* NewSequencer (nextSeq 1, empty markets, empty inbox) on an empty store,
\* with the strategy main.go builds; the replayer's sequencer is built the
\* same way.
Init ==
    /\ cfg \in Configs
    /\ inbox = << >>
    /\ sent = 0
    /\ cancelled = FALSE
    /\ pc = "running"
    /\ nextSeq = 1
    /\ markets = NoMarkets
    /\ strat = NewSMACrossStrategy(StrategySymbol, ShortPeriod, LongPeriod).strat
    /\ wal = << >>
    /\ saveCalls = << >>
    /\ actions = NoActions
    /\ notes = << >>
    /\ stratCalls = 0
    /\ steps = << >>
    /\ lastApplied = 0
    /\ received = 0
    /\ dumps = << >>
    /\ lastPanic = "none"
    /\ rpc = "replaying"
    /\ rCursor = 0
    /\ rNextSeq = 1
    /\ rMarkets = NoMarkets
    /\ rStrat = NewSMACrossStrategy(StrategySymbol, ShortPeriod, LongPeriod).strat
    /\ rActions = NoActions
    /\ rNotes = << >>
    /\ poolOut = 0
    /\ hpc = "idle"
    /\ hev = NoEvent
    /\ hpre = GetMarketState(NoMarkets, "")
    /\ snap = NoSnap
    /\ seqCounter = 1
    /\ ppc = [p \in Producers |-> "idle"]
    /\ pheld = [p \in Producers |-> NoEvent]
    /\ alloc = [p \in Producers |-> << >>]
    /\ heap = NoHeap
    /\ held = {}
    /\ marketUpdatePool = {}
    /\ orderUpdatePool = {}
    /\ acquired = NoAcquire
    /\ written = {}
    /\ poolOp = "none"
    /\ bal = NewBalance(StrategySymbol)
    /\ balOp = NoBalanceCall
    /\ balPc = "running"
    /\ sma = NoStrategy
    /\ fed = << >>
    /\ smaOut = NoCall
    /\ smaPc = "unbuilt"
    /\ recovered = -1
    /\ gwKind = "none"
    /\ gwCancelled = FALSE
    /\ wconn = 0
    /\ wconnected = FALSE
    /\ closedConns = {}
    /\ dials = 0
    /\ lpc = "idle"
    /\ llocal = 0
    /\ pings = 0
    /\ dpc = "idle"
    /\ exchangeRate = 0
    /\ marketData = [sym \in PriceSymbols |-> NoMarketData]
    /\ syncPc = "spawning"
    /\ spawned = 0
    /\ wg = 0
    /\ semaphore = 0
    /\ syncCancelled = FALSE
    /\ gpc = [g \in 1 .. NumSymbols |-> "none"]
    /\ worked = {}
    /\ sawCancel = {}
    /\ spotPc = "idle"
    /\ spotEv = Nil
    /\ spotInbox = << >>
    /\ spotProcessing = Nil
    /\ spotCount = 0
    /\ enqueuedSeqs = {}
    /\ releasedSeqs = {}
    /\ vExpected = 1
    /\ vSeq = 1
    /\ vOut = NoValidate

\* A producer offers an event to the inbox: enqueued if there is room,
\* dropped otherwise.  A MarketUpdate was acquired from the pool and is
\* released by the producer when dropped.
Send(ev) ==
    /\ pc = "running"
    /\ sent < MaxSent
    /\ sent' = sent + 1
    /\ inbox' = IF Len(inbox) < InboxSize THEN Append(inbox, ev) ELSE inbox
    /\ poolOut' = IF Len(inbox) < InboxSize /\ ev.typ = "MarketUpdate"
                  THEN poolOut + 1 ELSE poolOut
    /\ UNCHANGED <<cfg, unitVars, cancelled, pc, nextSeq, markets, strat, wal, saveCalls,
                   actions, notes, stratCalls, steps, lastApplied, received,
                   dumps, lastPanic, replayVars, readerVars, producerVars>>

\* The context passed to Run is cancelled.
Cancel ==
    /\ pc = "running"
    /\ ~cancelled
    /\ cancelled' = TRUE
    /\ UNCHANGED <<cfg, unitVars, inbox, sent, pc, nextSeq, markets, strat, wal, saveCalls,
                   actions, notes, stratCalls, steps, lastApplied, received,
                   dumps, lastPanic, poolOut, replayVars, readerVars, producerVars>>

\* Run, case <-ctx.Done(): return.
RunReturn ==
    /\ pc = "running"
    /\ cancelled
    /\ pc' = "stopped"
    /\ UNCHANGED <<cfg, unitVars, inbox, sent, cancelled, nextSeq, markets, strat, wal,
                   saveCalls, actions, notes, stratCalls, steps, lastApplied,
                   received, dumps, lastPanic, poolOut, replayVars, readerVars, producerVars>>

\* Run, case ev := <-s.inbox: processEvent(ev); a panic is recovered by the
\* deferred function, which calls DumpState and panics again.  ioOk: the
\* store's write succeeds.
RunReceive ==
    /\ pc = "running"
    /\ inbox # << >>
    /\ \E ioOk \in BOOLEAN :
        \E ev \in {Head(inbox)} :
        \E r \in {processEvent(cfg, [nextSeq |-> nextSeq, markets |-> markets,
                                     strat |-> strat, wal |-> wal], ev, ioOk)} :
            /\ inbox' = Tail(inbox)
            /\ received' = received + 1
            /\ nextSeq' = r.nextSeq
            /\ markets' = r.markets
            /\ strat' = r.strat
            /\ wal' = r.wal
            /\ saveCalls' = saveCalls \o r.saveCalls
            /\ actions' = actions \o r.actions
            /\ notes' = notes \o r.notes
            /\ stratCalls' = stratCalls + r.stratCalls
            /\ steps' = r.steps
            /\ lastApplied' = IF r.applied THEN ev.seq ELSE lastApplied
            /\ lastPanic' = r.panic
            /\ IF r.panic # "none"
               THEN /\ pc' = "halted"
                    /\ dumps' = Append(dumps, DumpState(r.nextSeq, r.markets))
               ELSE UNCHANGED <<pc, dumps>>
    /\ UNCHANGED <<cfg, unitVars, sent, cancelled, poolOut, replayVars, readerVars, producerVars>>

\* The replayer, once no live run is active: read the next row of the store
\* in ascending seq and hand it to ReplayEvent of a fresh sequencer.
ReplayStep ==
    /\ cfg.store
    /\ pc \in {"stopped", "halted"}
    /\ rpc = "replaying"
    /\ HasRowAfter(wal, rCursor)
    /\ \E ev \in {NextRowAfter(wal, rCursor)} :
       \E r \in {ReplayEvent(cfg, [nextSeq |-> rNextSeq, markets |-> rMarkets,
                                   strat |-> rStrat], ev)} :
           /\ rCursor' = ev.seq
           /\ rNextSeq' = r.nextSeq
           /\ rMarkets' = r.markets
           /\ rStrat' = r.strat
           /\ rActions' = rActions \o r.actions
           /\ rNotes' = rNotes \o r.notes
           /\ rpc' = IF r.panic # "none" THEN "fatal" ELSE "replaying"
    /\ UNCHANGED <<cfg, unitVars, liveVars, readerVars, producerVars>>

\* The replayer reaches the end of the store.
ReplayFinish ==
    /\ cfg.store
    /\ pc \in {"stopped", "halted"}
    /\ rpc = "replaying"
    /\ ~HasRowAfter(wal, rCursor)
    /\ rpc' = "done"
    /\ UNCHANGED <<cfg, unitVars, liveVars, rCursor, rNextSeq, rMarkets, rStrat, rActions, rNotes,
                   readerVars, producerVars>>

\* ReplayEvent called directly on the fresh sequencer with any event.
ReplayCall(ev) ==
    /\ rpc = "replaying"
    /\ \E r \in {ReplayEvent(cfg, [nextSeq |-> rNextSeq, markets |-> rMarkets,
                                   strat |-> rStrat], ev)} :
           /\ rCursor' = ev.seq
           /\ rNextSeq' = r.nextSeq
           /\ rMarkets' = r.markets
           /\ rStrat' = r.strat
           /\ rActions' = rActions \o r.actions
           /\ rNotes' = rNotes \o r.notes
           /\ rpc' = IF r.panic # "none" THEN "fatal" ELSE "replaying"
    /\ UNCHANGED <<cfg, unitVars, liveVars, readerVars, producerVars>>

Next ==
    \/ \E ev \in Events : Send(ev)
    \/ Cancel
    \/ RunReturn
    \/ RunReceive
    \/ ReplayStep
    \/ ReplayFinish

Spec == Init /\ [][Next]_vars

\* Run is a goroutine the scheduler keeps running, and its select picks
\* among the ready cases at random: a case that stays ready is taken in the
\* end.
SpecFair == Spec /\ WF_vars(RunReturn) /\ WF_vars(RunReceive)

\* ReplayEvent alone, driven with arbitrary events.
NextReplay == \E ev \in Events : ReplayCall(ev)

SpecReplay == Init /\ [][NextReplay]_vars

(***************************************************************************)
(* The sequencer handling in-order MarketUpdates statement by statement,   *)
(* with an external reader calling GetMarketState from another goroutine.  *)
(* The reader holds mu.RLock for its lookup and copy; the sequencer takes  *)
(* no lock (sequencer.go:195), so nothing orders the two.                  *)
(***************************************************************************)
ReaderQtys == {5, 6}

\* The updates the sequencer is given; each takes the next seq.
ReaderEvents ==
    [typ : {"MarketUpdate"}, seq : {0}, ts : Stamps,
     symbol : Symbols, price : Prices, qty : ReaderQtys]

ReaderFrame == <<cfg, unitVars, inbox, cancelled, received, poolOut, replayVars, producerVars>>

\* processEvent up to the dispatch, for an event with seq = nextSeq whose
\* append succeeds, and handleMarketUpdate's lookup of the symbol.
HBegin(e) ==
    /\ pc = "running"
    /\ hpc = "idle"
    /\ sent < MaxSent
    /\ sent' = sent + 1
    /\ \E ev \in {[e EXCEPT !.seq = nextSeq]} :
           /\ wal' = IF cfg.store THEN SaveEvent(wal, ev, TRUE).wal ELSE wal
           /\ saveCalls' = IF cfg.store THEN Append(saveCalls, ev.seq) ELSE saveCalls
           /\ hev' = ev
    /\ steps' = << "validate" >> \o (IF cfg.store THEN << "persist" >> ELSE << >>)
    /\ hpre' = GetMarketState(markets, e.symbol)
    /\ hpc' = IF e.symbol \in DOMAIN markets THEN "found" ELSE "inserting"
    /\ UNCHANGED <<pc, nextSeq, markets, strat, actions, notes, stratCalls,
                   lastApplied, dumps, lastPanic, snap, ReaderFrame>>

\* s.markets[e.Symbol] = &domain.MarketState{Symbol: e.Symbol}
HInsert ==
    /\ pc = "running"
    /\ hpc = "inserting"
    /\ markets' = MapPut(markets, hev.symbol, NewMarketState(hev.symbol))
    /\ hpc' = "found"
    /\ UNCHANGED <<sent, pc, nextSeq, strat, wal, saveCalls, actions, notes, stratCalls,
                   steps, lastApplied, dumps, lastPanic, hev, hpre, snap, ReaderFrame>>

\* state.PriceMicros = e.PriceMicros
HPrice ==
    /\ pc = "running"
    /\ hpc = "found"
    /\ markets' = [markets EXCEPT ![hev.symbol].price = hev.price]
    /\ hpc' = "price"
    /\ UNCHANGED <<sent, pc, nextSeq, strat, wal, saveCalls, actions, notes, stratCalls,
                   steps, lastApplied, dumps, lastPanic, hev, hpre, snap, ReaderFrame>>

\* state.TotalQtySats = e.QtySats
HQty ==
    /\ pc = "running"
    /\ hpc = "price"
    /\ markets' = [markets EXCEPT ![hev.symbol].qty = hev.qty]
    /\ hpc' = "qty"
    /\ UNCHANGED <<sent, pc, nextSeq, strat, wal, saveCalls, actions, notes, stratCalls,
                   steps, lastApplied, dumps, lastPanic, hev, hpre, snap, ReaderFrame>>

\* state.LastUpdateUnixM = e.Ts
HTs ==
    /\ pc = "running"
    /\ hpc = "qty"
    /\ markets' = [markets EXCEPT ![hev.symbol].ts = hev.ts]
    /\ hpc' = "written"
    /\ steps' = Append(steps, "mutate")
    /\ UNCHANGED <<sent, pc, nextSeq, strat, wal, saveCalls, actions, notes, stratCalls,
                   lastApplied, dumps, lastPanic, hev, hpre, snap, ReaderFrame>>

\* The rest of handleMarketUpdate and of processEvent: the strategy is
\* invoked with a copy of the state, the observer is handed the pointer to
\* the map's entry, nextSeq is incremented.  A panic of the strategy's
\* checked arithmetic is recovered by Run, which dumps and halts.
HFinish ==
    /\ pc = "running"
    /\ hpc = "written"
    /\ \E r \in {IF cfg.strategy THEN OnMarketUpdate(strat, markets[hev.symbol])
                  ELSE [strat |-> strat, actions |-> NoActions, panic |-> FALSE]} :
           /\ strat' = r.strat
           /\ actions' = actions \o r.actions
           /\ stratCalls' = stratCalls + (IF cfg.strategy THEN 1 ELSE 0)
           /\ lastApplied' = hev.seq
           /\ IF r.panic
              THEN /\ pc' = "halted"
                   /\ lastPanic' = "OVERFLOW"
                   /\ dumps' = Append(dumps, DumpState(nextSeq, markets))
                   /\ steps' = steps \o << "strategy" >>
                   /\ UNCHANGED <<nextSeq, notes>>
              ELSE /\ notes' = IF cfg.observer THEN Append(notes, markets[hev.symbol])
                               ELSE notes
                   /\ nextSeq' = (nextSeq + 1) % UintMod
                   /\ steps' = steps \o (IF cfg.strategy THEN << "strategy" >> ELSE << >>)
                                      \o (IF cfg.observer THEN << "notify" >> ELSE << >>)
                                      \o << "advance" >>
                   /\ UNCHANGED <<pc, lastPanic, dumps>>
    /\ hpc' = "idle"
    /\ hev' = NoEvent
    /\ UNCHANGED <<sent, markets, wal, saveCalls, hpre, snap, ReaderFrame>>

\* What a GetMarketState(symbol) overlapping the sequencer can return.  The
\* lookup and the copy read whatever the sequencer has written so far.  A
\* lookup while the sequencer's insertion into the map is in progress is an
\* unsynchronised map read during a map write: the runtime may stop the
\* process ("concurrent map read and map write"), or the lookup may miss or
\* find the new entry.
ReadOutcomes(symbol) ==
    LET now == GetMarketState(markets, symbol)
        seen == [symbol |-> symbol, ok |-> now.ok, state |-> now.state, fault |-> FALSE]
    IN  IF hpc # "inserting" THEN {seen}
        ELSE {seen, [seen EXCEPT !.fault = TRUE]}
             \cup (IF symbol = hev.symbol
                   THEN {[seen EXCEPT !.ok = TRUE, !.state = NewMarketState(symbol)]}
                   ELSE {})

\* An external goroutine calls GetMarketState(symbol).
Read(symbol) ==
    /\ pc \in {"running", "stopped", "halted"}
    /\ \E out \in ReadOutcomes(symbol) :
           /\ snap' = out
           /\ pc' = IF out.fault THEN "crashed" ELSE pc
    /\ UNCHANGED <<sent, nextSeq, markets, strat, wal, saveCalls, actions, notes,
                   stratCalls, steps, lastApplied, dumps, lastPanic, hpc, hev, hpre,
                   ReaderFrame>>

NextReader ==
    \/ \E e \in ReaderEvents : HBegin(e)
    \/ HInsert
    \/ HPrice
    \/ HQty
    \/ HTs
    \/ HFinish
    \/ \E symbol \in Symbols : Read(symbol)

SpecReader == Init /\ [][NextReader]_vars

(***************************************************************************)
(* The producers main.go starts, each stamping an event with the next      *)
(* number of the shared counter and sending it to the inbox, next to Run.  *)
(***************************************************************************)
\* quant.NextSeq with the counter left as it was.
NextSeq_NoAdvance(counter) == [val |-> counter, counter |-> counter]

\* quant.NextSeq(&counter): one atomic read-and-increment of the shared
\* uint64; val is the number the caller gets.
NextSeq(counter) == [val |-> counter, counter |-> (counter + 1) % UintMod]

\* The exchange-rate poller sends with a plain channel send; the three
\* workers send inside a select with a default case.
BlockingSend(p) == p = "fx"

\* Only the Bitget spot worker takes its events from the pool.
UsesPool(p) == p = "spot"

ProducerSymbol(p) == IF p = "fx" THEN "USD/KRW" ELSE StrategySymbol

\* A producer builds its event: the seq comes from the shared counter.
Stamp(p) ==
    /\ pc \in {"running", "stopped"}
    /\ ppc[p] = "idle"
    /\ sent < MaxStamped
    /\ sent' = sent + 1
    /\ \E n \in {NextSeq(seqCounter)} :
           /\ seqCounter' = n.counter
           /\ alloc' = [alloc EXCEPT ![p] = Append(@, n.val)]
           /\ pheld' = [pheld EXCEPT ![p] =
                            [typ |-> "MarketUpdate", seq |-> n.val, ts |-> 7,
                             symbol |-> ProducerSymbol(p), price |-> 1, qty |-> 5]]
    /\ ppc' = [ppc EXCEPT ![p] = "sending"]
    /\ poolOut' = IF UsesPool(p) THEN poolOut + 1 ELSE poolOut
    /\ UNCHANGED <<cfg, unitVars, inbox, cancelled, pc, nextSeq, markets, strat, wal, saveCalls,
                   actions, notes, stratCalls, steps, lastApplied, received, dumps,
                   lastPanic, replayVars, readerVars>>

\* A producer sends the event it built.  With room in the inbox the event
\* is enqueued.  With the inbox full a select with default drops it (the
\* spot worker releasing it to the pool) and a plain send waits.
Offer(p) ==
    /\ pc \in {"running", "stopped"}
    /\ ppc[p] = "sending"
    /\ Len(inbox) >= InboxSize => ~BlockingSend(p)
    /\ inbox' = IF Len(inbox) < InboxSize THEN Append(inbox, pheld[p]) ELSE inbox
    /\ poolOut' = IF Len(inbox) >= InboxSize /\ UsesPool(p) THEN poolOut - 1 ELSE poolOut
    /\ ppc' = [ppc EXCEPT ![p] = "idle"]
    /\ pheld' = [pheld EXCEPT ![p] = NoEvent]
    /\ UNCHANGED <<cfg, unitVars, sent, cancelled, pc, nextSeq, markets, strat, wal, saveCalls,
                   actions, notes, stratCalls, steps, lastApplied, received, dumps,
                   lastPanic, replayVars, readerVars, seqCounter, alloc>>

NextProducers ==
    \/ \E p \in Producers : Stamp(p)
    \/ \E p \in Producers : Offer(p)
    \/ RunReceive
    \/ Cancel
    \/ RunReturn

SpecProducers == Init /\ [][NextProducers]_vars

(***************************************************************************)
(* The event pool used by callers that acquire an event, populate it and   *)
(* release it; a caller touches an event only while it holds it.           *)
(***************************************************************************)
PoolFrame == <<cfg, liveVars, replayVars, readerVars, producerVars, balanceVars,
               smaVars, laterVars>>

\* ev := event.AcquireMarketUpdateEvent(), returning address a.
AcquireMarket(a) ==
    /\ \E r \in {AcquireMarketUpdateEvent(heap, marketUpdatePool, a)} :
        /\ r.ok
        /\ heap' = r.heap
        /\ marketUpdatePool' = r.pool
        /\ acquired' = [addr |-> a, ev |-> r.heap[a],
                        recycled |-> a \in marketUpdatePool]
    /\ held' = held \cup {a}
    /\ poolOp' = "acquire"
    /\ UNCHANGED <<orderUpdatePool, written, PoolFrame>>

\* ev := event.AcquireOrderUpdateEvent(), returning address a.
AcquireOrder(a) ==
    /\ \E r \in {AcquireOrderUpdateEvent(heap, orderUpdatePool, a)} :
        /\ r.ok
        /\ heap' = r.heap
        /\ orderUpdatePool' = r.pool
        /\ acquired' = [addr |-> a, ev |-> r.heap[a],
                        recycled |-> a \in orderUpdatePool]
    /\ held' = held \cup {a}
    /\ poolOp' = "acquire"
    /\ UNCHANGED <<marketUpdatePool, written, PoolFrame>>

\* The holder of a sets its fields.
Populate(a, ev) ==
    /\ a \in held
    /\ \/ a \in MarketAddrs /\ ev \in PopulatedMarketUpdateEvents
       \/ a \in OrderAddrs /\ ev \in PopulatedOrderUpdateEvents
    /\ heap' = [heap EXCEPT ![a] = ev]
    /\ written' = written \cup {a}
    /\ poolOp' = "write"
    /\ UNCHANGED <<held, marketUpdatePool, orderUpdatePool, acquired, PoolFrame>>

\* event.ReleaseMarketUpdateEvent(ev) by the holder of ev, or with nil.
ReleaseMarket(ev) ==
    /\ ev = Nil \/ (ev \in held /\ ev \in MarketAddrs)
    /\ \E r \in {ReleaseMarketUpdateEvent(heap, marketUpdatePool, ev)} :
        /\ heap' = r.heap
        /\ marketUpdatePool' = r.pool
    /\ held' = held \ {ev}
    /\ poolOp' = IF ev = Nil THEN "releaseNil" ELSE "release"
    /\ UNCHANGED <<orderUpdatePool, acquired, written, PoolFrame>>

\* event.ReleaseOrderUpdateEvent(ev) by the holder of ev, or with nil.
ReleaseOrder(ev) ==
    /\ ev = Nil \/ (ev \in held /\ ev \in OrderAddrs)
    /\ \E r \in {ReleaseOrderUpdateEvent(heap, orderUpdatePool, ev)} :
        /\ heap' = r.heap
        /\ orderUpdatePool' = r.pool
    /\ held' = held \ {ev}
    /\ poolOp' = IF ev = Nil THEN "releaseNil" ELSE "release"
    /\ UNCHANGED <<marketUpdatePool, acquired, written, PoolFrame>>

NextPool ==
    \/ \E a \in MarketAddrs : AcquireMarket(a)
    \/ \E a \in OrderAddrs : AcquireOrder(a)
    \/ \E a \in MarketAddrs \cup OrderAddrs :
       \E ev \in PopulatedMarketUpdateEvents \cup PopulatedOrderUpdateEvents :
           Populate(a, ev)
    \/ \E ev \in MarketAddrs \cup {Nil} : ReleaseMarket(ev)
    \/ \E ev \in OrderAddrs \cup {Nil} : ReleaseOrder(ev)

SpecPool == Init /\ [][NextPool]_vars

(***************************************************************************)
(* One Balance under arbitrary Credit / Debit / Reserve / Release calls.   *)
(* Each call carries the seq of the event that caused it, one more than    *)
(* the last; a panic ends the program.                                     *)
(***************************************************************************)
\* amountSats arguments: the extremes of int64, zero and small amounts of
\* either sign.
Amounts == {MinInt64, -1, 0, 1, 2, MaxInt64}

BalanceFrame == <<cfg, liveVars, replayVars, readerVars, producerVars, poolVars,
                  smaVars, laterVars>>

\* The call returned with result r.
BalanceCalled(op, amountSats, r) ==
    /\ bal' = r.bal
    /\ balOp' = [op |-> op, amountSats |-> amountSats, panic |-> r.panic]
    /\ balPc' = IF r.panic = "none" THEN "running" ELSE "halted"
    /\ UNCHANGED BalanceFrame

CallCredit(amountSats) ==
    /\ balPc = "running"
    /\ bal.LastSeq < MaxCalls
    /\ BalanceCalled("Credit", amountSats, Credit(bal, amountSats, bal.LastSeq + 1))

CallDebit(amountSats) ==
    /\ balPc = "running"
    /\ bal.LastSeq < MaxCalls
    /\ BalanceCalled("Debit", amountSats, Debit(bal, amountSats, bal.LastSeq + 1))

CallReserve(amountSats) ==
    /\ balPc = "running"
    /\ bal.LastSeq < MaxCalls
    /\ BalanceCalled("Reserve", amountSats, Reserve(bal, amountSats, bal.LastSeq + 1))

CallRelease(amountSats) ==
    /\ balPc = "running"
    /\ bal.LastSeq < MaxCalls
    /\ BalanceCalled("Release", amountSats, Release(bal, amountSats, bal.LastSeq + 1))

NextBalance ==
    \/ \E x \in Amounts : CallCredit(x)
    \/ \E x \in Amounts : CallDebit(x)
    \/ \E x \in Amounts : CallReserve(x)
    \/ \E x \in Amounts : CallRelease(x)

SpecBalance == Init /\ [][NextBalance]_vars

(***************************************************************************)
(* NewSMACrossStrategy with arbitrary periods, and the instance it returns *)
(* fed arbitrary market states.                                            *)
(***************************************************************************)
\* Periods passed to the constructor.
PeriodDomain == 1 .. LongPeriod + 1
\* Number of prices of its own symbol the instance is fed.
MaxFed == LongPeriod + 3
\* Prices fed: a negative one, zero, small ones and the largest int64.
StrategyPrices == {-3, 0, 1, 2, MaxInt64}

\* The market states handed to OnMarketUpdate.
StrategyInputs ==
    [symbol : {StrategySymbol}, price : StrategyPrices, qty : Qtys, ts : Stamps]
    \cup [symbol : Symbols \ {StrategySymbol}, price : {2}, qty : Qtys, ts : Stamps]

SmaFrame == <<cfg, liveVars, replayVars, readerVars, producerVars, poolVars,
              balanceVars, laterVars>>

\* strategy.NewSMACrossStrategy(StrategySymbol, shortPeriod, longPeriod): a
\* panic leaves the caller without an instance.
Construct(shortPeriod, longPeriod) ==
    /\ smaPc = "unbuilt"
    /\ \E r \in {NewSMACrossStrategy(StrategySymbol, shortPeriod, longPeriod)} :
        /\ sma' = IF r.panic THEN NoStrategy ELSE r.strat
        /\ smaPc' = IF r.panic THEN "rejected" ELSE "ready"
        /\ smaOut' = [NoCall EXCEPT !.op = "new", !.shortPeriod = shortPeriod,
                                    !.longPeriod = longPeriod, !.panic = r.panic]
    /\ UNCHANGED <<fed, SmaFrame>>

\* strat.OnMarketUpdate(state)
Feed(state) ==
    /\ smaPc = "ready"
    /\ Len(fed) < MaxFed
    /\ \E r \in {OnMarketUpdate(sma, state)} :
        /\ sma' = r.strat
        /\ smaOut' = [NoCall EXCEPT !.op = "update", !.symbol = state.symbol,
                                    !.price = state.price, !.actions = r.actions,
                                    !.panic = r.panic, !.before = sma]
        /\ smaPc' = IF r.panic THEN "halted" ELSE "ready"
    /\ fed' = IF state.symbol = sma.symbol THEN Append(fed, state.price) ELSE fed
    /\ UNCHANGED SmaFrame

NextSma ==
    \/ \E sp, lp \in PeriodDomain : Construct(sp, lp)
    \/ \E state \in StrategyInputs : Feed(state)

SpecSma == Init /\ [][NextSma]_vars

(***************************************************************************)
(* The sequencer that halts on every gap (the second Sequencer of          *)
(* sequencer.go), run with the same producers.                             *)
(***************************************************************************)
\* Run, case ev := <-s.inbox, with the strict processEvent.
RunReceiveStrict ==
    /\ pc = "running"
    /\ inbox # << >>
    /\ \E ioOk \in BOOLEAN :
        \E ev \in {Head(inbox)} :
        \E r \in {StrictProcessEvent(cfg, [nextSeq |-> nextSeq, markets |-> markets,
                                           strat |-> strat, wal |-> wal], ev, ioOk)} :
            /\ inbox' = Tail(inbox)
            /\ received' = received + 1
            /\ nextSeq' = r.nextSeq
            /\ markets' = r.markets
            /\ strat' = r.strat
            /\ wal' = r.wal
            /\ saveCalls' = saveCalls \o r.saveCalls
            /\ actions' = actions \o r.actions
            /\ notes' = notes \o r.notes
            /\ stratCalls' = stratCalls + r.stratCalls
            /\ steps' = r.steps
            /\ lastApplied' = IF r.applied THEN ev.seq ELSE lastApplied
            /\ lastPanic' = r.panic
            /\ IF r.panic # "none"
               THEN /\ pc' = "halted"
                    /\ dumps' = Append(dumps, DumpState(r.nextSeq, r.markets))
               ELSE UNCHANGED <<pc, dumps>>
    /\ UNCHANGED <<cfg, unitVars, sent, cancelled, poolOut, replayVars, readerVars,
                   producerVars>>

NextStrict ==
    \/ \E ev \in Events : Send(ev)
    \/ Cancel
    \/ RunReturn
    \/ RunReceiveStrict

SpecStrict == Init /\ [][NextStrict]_vars

(***************************************************************************)
(* A sequencer on which RecoverState is called once after construction,    *)
(* before Run takes its first event.                                       *)
(***************************************************************************)
\* lastSeq arguments: such that lastSeq + 1 is a seq the producers send.
RecoverSeqs == {s - 1 : s \in SeqDomain}

RecoverFrame == <<replayVars, readerVars, producerVars, poolVars, balanceVars,
                  smaVars, gatewayVars, priceVars, syncVars,
                  spotVars,
                  validateVars>>

\* seq.RecoverState(lastSeq)
Recover(lastSeq) ==
    /\ recovered = -1
    /\ sent = 0
    /\ recovered' = lastSeq
    /\ nextSeq' = RecoverState(cfg, nextSeq, lastSeq)
    /\ UNCHANGED <<cfg, inbox, sent, cancelled, pc, markets, strat, wal, saveCalls,
                   actions, notes, stratCalls, steps, lastApplied, received, dumps,
                   lastPanic, poolOut, RecoverFrame>>

NextRecover ==
    \/ \E lastSeq \in RecoverSeqs : Recover(lastSeq)
    \/ \E ev \in Events : Send(ev)
    \/ RunReceive

SpecRecover == Init /\ [][NextRecover]_vars

(***************************************************************************)
(* A gateway worker (internal/infra): the connectionLoop goroutine that    *)
(* dials, subscribes and reads, the pingLoop goroutines it starts, and a   *)
(* caller of Disconnect.  w.mu guards each critical section, so a section  *)
(* is one step; what lies between two sections is not.                     *)
(***************************************************************************)
\* BitgetSpotWorker (unnamed/part_007), bitget.SpotWorker and upbit.Worker.
WorkerKinds == {"BitgetSpotWorker", "SpotWorker", "Worker"}

\* readLoop reads from the copy of w.conn it took under the lock.
ReadsLocalCopy(kind) == kind = "BitgetSpotWorker"
\* connect starts a pingLoop.
HasPingLoop(kind) == kind \in {"BitgetSpotWorker", "SpotWorker"}
\* The wait after a failed connect also watches ctx.Done().
BackoffWatchesCtx(kind) == kind \in {"BitgetSpotWorker", "Worker"}

\* closeConnection: under w.mu, Close and clear a non-nil conn, connected =
\* false.
closeConnection(conn, closed) ==
    [conn |-> 0, connected |-> FALSE,
     closed |-> IF conn # 0 THEN closed \cup {conn} ELSE closed]

GatewayFrame == <<cfg, liveVars, replayVars, readerVars, producerVars, poolVars,
                  balanceVars, smaVars, recoverVars, priceVars, syncVars,
                  spotVars,
                  validateVars>>

\* Connect: ctx, w.cancel = WithCancel(ctx); wg.Add(1); go connectionLoop.
GwConnect(kind) ==
    /\ gwKind = "none"
    /\ gwKind' = kind
    /\ lpc' = "top"
    /\ UNCHANGED <<gwCancelled, wconn, wconnected, closedConns, dials, llocal, pings,
                   dpc, GatewayFrame>>

\* connectionLoop: select on ctx.Done() with default at the top of the loop.
LoopTop ==
    /\ lpc = "top"
    /\ lpc' = IF gwCancelled THEN "done" ELSE "dial"
    /\ UNCHANGED <<gwKind, gwCancelled, wconn, wconnected, closedConns, dials, llocal,
                   pings, dpc, GatewayFrame>>

\* connect: dialer.DialContext(ctx, ...) returns a connection or an error;
\* with ctx already cancelled it returns an error.
Dial(ok) ==
    /\ lpc = "dial"
    /\ dials < MaxDials
    /\ IF ok /\ ~gwCancelled
       THEN /\ dials' = dials + 1
            /\ llocal' = dials + 1
            /\ lpc' = "dialed"
       ELSE /\ lpc' = "backoff"
            /\ UNCHANGED <<dials, llocal>>
    /\ UNCHANGED <<gwKind, gwCancelled, wconn, wconnected, closedConns, pings, dpc,
                   GatewayFrame>>

\* connect: w.mu.Lock(); w.conn = conn; w.connected = true; w.mu.Unlock().
Install ==
    /\ lpc = "dialed"
    /\ wconn' = llocal
    /\ wconnected' = TRUE
    /\ lpc' = "subscribe"
    /\ UNCHANGED <<gwKind, gwCancelled, closedConns, dials, llocal, pings, dpc,
                   GatewayFrame>>

\* connect: w.subscribe(), one threadSafeWrite.  It fails on a nil or closed
\* connection and may fail on an open one.
Subscribe(ok) ==
    /\ lpc = "subscribe"
    /\ lpc' = IF ok /\ wconn # 0 /\ wconn \notin closedConns
              THEN (IF HasPingLoop(gwKind) THEN "spawnPing" ELSE "readTop")
              ELSE "subscribeFailed"
    /\ UNCHANGED <<gwKind, gwCancelled, wconn, wconnected, closedConns, dials, llocal,
                   pings, dpc, GatewayFrame>>

\* connect: w.closeConnection() after a failed subscribe; return err.
SubscribeFailed ==
    /\ lpc = "subscribeFailed"
    /\ \E r \in {closeConnection(wconn, closedConns)} :
        /\ wconn' = r.conn
        /\ wconnected' = r.connected
        /\ closedConns' = r.closed
    /\ lpc' = "backoff"
    /\ UNCHANGED <<gwKind, gwCancelled, dials, llocal, pings, dpc, GatewayFrame>>

\* connect: go w.pingLoop(ctx); return nil.
SpawnPing ==
    /\ lpc = "spawnPing"
    /\ pings' = pings + 1
    /\ lpc' = "readTop"
    /\ UNCHANGED <<gwKind, gwCancelled, wconn, wconnected, closedConns, dials, llocal,
                   dpc, GatewayFrame>>

\* connectionLoop after a failed connect: wait, then continue; where the
\* wait watches ctx.Done() the loop may return instead.
Backoff(leave) ==
    /\ lpc = "backoff"
    /\ lpc' = IF leave /\ gwCancelled /\ BackoffWatchesCtx(gwKind) THEN "done" ELSE "top"
    /\ UNCHANGED <<gwKind, gwCancelled, wconn, wconnected, closedConns, dials, llocal,
                   pings, dpc, GatewayFrame>>

\* readLoop: select on ctx.Done() with default.
ReadTop ==
    /\ lpc = "readTop"
    /\ lpc' = IF gwCancelled THEN "top" ELSE "readCheck"
    /\ UNCHANGED <<gwKind, gwCancelled, wconn, wconnected, closedConns, dials, llocal,
                   pings, dpc, GatewayFrame>>

\* readLoop: under w.mu.RLock, look at w.conn (BitgetSpotWorker keeps the
\* value in conn); return if it is nil.
ReadCheck ==
    /\ lpc = "readCheck"
    /\ llocal' = IF ReadsLocalCopy(gwKind) THEN wconn ELSE llocal
    /\ lpc' = IF wconn = 0 THEN "top" ELSE "readMessage"
    /\ UNCHANGED <<gwKind, gwCancelled, wconn, wconnected, closedConns, dials, pings,
                   dpc, GatewayFrame>>

\* readLoop: conn.ReadMessage() on the local copy, or w.conn.ReadMessage()
\* on the field as it is now, outside the lock.  On a nil *websocket.Conn
\* the call dereferences nil; on a closed connection it returns an error;
\* on an open one it returns a message or an error.
ReadMessage(ok) ==
    /\ lpc = "readMessage"
    /\ \E c \in {IF ReadsLocalCopy(gwKind) THEN llocal ELSE wconn} :
        lpc' = IF c = 0 THEN "nilDeref"
               ELSE IF ok /\ c \notin closedConns THEN "readTop"
               ELSE "readFailed"
    /\ UNCHANGED <<gwKind, gwCancelled, wconn, wconnected, closedConns, dials, llocal,
                   pings, dpc, GatewayFrame>>

\* readLoop: w.closeConnection(); return.
ReadFailed ==
    /\ lpc = "readFailed"
    /\ \E r \in {closeConnection(wconn, closedConns)} :
        /\ wconn' = r.conn
        /\ wconnected' = r.connected
        /\ closedConns' = r.closed
    /\ lpc' = "top"
    /\ UNCHANGED <<gwKind, gwCancelled, dials, llocal, pings, dpc, GatewayFrame>>

\* pingLoop: case <-ctx.Done(): return.  Its other case writes a ping and
\* loops.
PingExit ==
    /\ pings > 0
    /\ gwCancelled
    /\ pings' = pings - 1
    /\ UNCHANGED <<gwKind, gwCancelled, wconn, wconnected, closedConns, dials, lpc,
                   llocal, dpc, GatewayFrame>>

\* Disconnect: w.cancel().
DisconnectCancel ==
    /\ gwKind # "none"
    /\ dpc = "idle"
    /\ gwCancelled' = TRUE
    /\ dpc' = "close"
    /\ UNCHANGED <<gwKind, wconn, wconnected, closedConns, dials, lpc, llocal, pings,
                   GatewayFrame>>

\* Disconnect: w.closeConnection().
DisconnectClose ==
    /\ dpc = "close"
    /\ \E r \in {closeConnection(wconn, closedConns)} :
        /\ wconn' = r.conn
        /\ wconnected' = r.connected
        /\ closedConns' = r.closed
    /\ dpc' = "wait"
    /\ UNCHANGED <<gwKind, gwCancelled, dials, lpc, llocal, pings, GatewayFrame>>

\* Disconnect: w.wg.Wait() returns once connectionLoop has returned.
DisconnectWait ==
    /\ dpc = "wait"
    /\ lpc = "done"
    /\ dpc' = "returned"
    /\ UNCHANGED <<gwKind, gwCancelled, wconn, wconnected, closedConns, dials, lpc,
                   llocal, pings, GatewayFrame>>

\* IsConnected: w.connected under the read lock.
IsConnected == wconnected

NextGateway ==
    \/ \E kind \in WorkerKinds : GwConnect(kind)
    \/ LoopTop
    \/ \E ok \in BOOLEAN : Dial(ok)
    \/ Install
    \/ \E ok \in BOOLEAN : Subscribe(ok)
    \/ SubscribeFailed
    \/ SpawnPing
    \/ \E leave \in BOOLEAN : Backoff(leave)
    \/ ReadTop
    \/ ReadCheck
    \/ \E ok \in BOOLEAN : ReadMessage(ok)
    \/ ReadFailed
    \/ PingExit
    \/ DisconnectCancel
    \/ DisconnectClose
    \/ DisconnectWait

SpecGateway == Init /\ [][NextGateway]_vars

(***************************************************************************)
(* PriceService: the exchange-rate poller calls UpdateExchangeRate, the    *)
(* ticker processor calls ProcessTickers; both hold s.mu throughout.       *)
(***************************************************************************)
PriceFrame == <<cfg, liveVars, replayVars, readerVars, producerVars, poolVars,
                balanceVars, smaVars, recoverVars, gatewayVars, syncVars,
                  spotVars,
                  validateVars>>

\* UpdateExchangeRate(rate): s.exchangeRate = rate.
UpdateExchangeRate(rate) ==
    /\ exchangeRate' = rate
    /\ UNCHANGED <<marketData, PriceFrame>>

\* ProcessTickers(tickers): store each ticker and calculatePremium.
ProcessTickers(tickers) ==
    /\ marketData' = ProcessTickersFrom(marketData, tickers, 1, exchangeRate)
    /\ UNCHANGED <<exchangeRate, PriceFrame>>

NextPrice ==
    \/ \E rate \in Rates : UpdateExchangeRate(rate)
    \/ \E n \in 1 .. MaxTickers : \E tickers \in [1 .. n -> Tickers] :
          ProcessTickers(tickers)

SpecPrice == Init /\ [][NextPrice]_vars

(***************************************************************************)
(* Bootstrap.SyncAssets (unnamed/part_008, both variants): one goroutine   *)
(* per unique symbol behind a buffered channel used as a semaphore.        *)
(***************************************************************************)
SyncFrame == <<cfg, liveVars, replayVars, readerVars, producerVars, poolVars,
               balanceVars, smaVars, recoverVars, gatewayVars, priceVars,
                  spotVars,
                  validateVars>>

\* A send on the semaphore channel can proceed.
CanAcquire_Unbuffered(sem) == TRUE
CanAcquire(sem) == sem < SemaphoreCap

\* The caller's context is cancelled.
SyncCancel ==
    /\ ~syncCancelled
    /\ syncCancelled' = TRUE
    /\ UNCHANGED <<syncPc, spawned, wg, semaphore, gpc, worked, sawCancel, SyncFrame>>

\* for symbol := range uniqueSymbols: wg.Add(1); go func(sym).
SyncSpawn ==
    /\ syncPc = "spawning"
    /\ spawned < NumSymbols
    /\ spawned' = spawned + 1
    /\ wg' = wg + 1
    /\ gpc' = [gpc EXCEPT ![spawned + 1] = "select"]
    /\ UNCHANGED <<syncPc, semaphore, syncCancelled, worked, sawCancel, SyncFrame>>

\* select, case <-ctx.Done(): return, which runs the deferred wg.Done().
SyncSelectDone(g) ==
    /\ gpc[g] = "select"
    /\ syncCancelled
    /\ sawCancel' = sawCancel \cup {g}
    /\ wg' = wg - 1
    /\ gpc' = [gpc EXCEPT ![g] = "done"]
    /\ UNCHANGED <<syncPc, spawned, semaphore, syncCancelled, worked, SyncFrame>>

\* select, case semaphore <- struct{}{}: then defer the release.
SyncSelectAcquire(g) ==
    /\ gpc[g] = "select"
    /\ CanAcquire(semaphore)
    /\ semaphore' = semaphore + 1
    /\ gpc' = [gpc EXCEPT ![g] = "holding"]
    /\ UNCHANGED <<syncPc, spawned, wg, syncCancelled, worked, sawCancel, SyncFrame>>

\* The body: load the existing coin, download the icon, upsert.
SyncWork(g) ==
    /\ gpc[g] = "holding"
    /\ worked' = worked \cup {g}
    /\ gpc' = [gpc EXCEPT ![g] = "worked"]
    /\ UNCHANGED <<syncPc, spawned, wg, semaphore, syncCancelled, sawCancel, SyncFrame>>

\* The deferred func() { <-semaphore }().
SyncRelease(g) ==
    /\ gpc[g] = "worked"
    /\ semaphore > 0
    /\ semaphore' = semaphore - 1
    /\ gpc' = [gpc EXCEPT ![g] = "released"]
    /\ UNCHANGED <<syncPc, spawned, wg, syncCancelled, worked, sawCancel, SyncFrame>>

\* The deferred wg.Done().
SyncDone(g) ==
    /\ gpc[g] = "released"
    /\ wg' = wg - 1
    /\ gpc' = [gpc EXCEPT ![g] = "done"]
    /\ UNCHANGED <<syncPc, spawned, semaphore, syncCancelled, worked, sawCancel,
                   SyncFrame>>

\* wg.Wait() after the loop; SyncAssets returns.
SyncWait ==
    /\ syncPc = "spawning"
    /\ spawned = NumSymbols
    /\ wg = 0
    /\ syncPc' = "returned"
    /\ UNCHANGED <<spawned, wg, semaphore, syncCancelled, gpc, worked, sawCancel,
                   SyncFrame>>

NextSync ==
    \/ SyncCancel
    \/ SyncSpawn
    \/ \E g \in 1 .. NumSymbols : SyncSelectDone(g)
    \/ \E g \in 1 .. NumSymbols : SyncSelectAcquire(g)
    \/ \E g \in 1 .. NumSymbols : SyncWork(g)
    \/ \E g \in 1 .. NumSymbols : SyncRelease(g)
    \/ \E g \in 1 .. NumSymbols : SyncDone(g)
    \/ SyncWait

SpecSync == Init /\ [][NextSync]_vars

(***************************************************************************)
(* SpotWorker.handleMessage (bitget/spot_worker.go) with the pool and the  *)
(* sequencer, events being the objects at their addresses: the worker      *)
(* acquires, populates and sends; the sequencer receives and processes.    *)
(***************************************************************************)
SpotFrame == <<cfg, liveVars, replayVars, readerVars, producerVars, balanceVars,
               smaVars, recoverVars, gatewayVars, priceVars, syncVars,
                  validateVars>>

\* The references queued in the inbox.
Queued(q) == {q[i] : i \in 1 .. Len(q)}

\* A select that releases the event after the send as well.
SendOrRelease_ReleaseAlways(h, pool, q, ev) ==
    IF Len(q) < InboxSize
    THEN [inbox |-> Append(q, ev), enqueued |-> TRUE, released |-> TRUE,
          heap |-> ReleaseMarketUpdateEvent(h, pool, ev).heap,
          pool |-> ReleaseMarketUpdateEvent(h, pool, ev).pool]
    ELSE [inbox |-> q, enqueued |-> FALSE, released |-> TRUE,
          heap |-> ReleaseMarketUpdateEvent(h, pool, ev).heap,
          pool |-> ReleaseMarketUpdateEvent(h, pool, ev).pool]

\* select { case w.inbox <- ev: default: event.ReleaseMarketUpdateEvent(ev) }
SendOrRelease(h, pool, q, ev) ==
    IF Len(q) < InboxSize
    THEN [inbox |-> Append(q, ev), enqueued |-> TRUE, released |-> FALSE,
          heap |-> h, pool |-> pool]
    ELSE [inbox |-> q, enqueued |-> FALSE, released |-> TRUE,
          heap |-> ReleaseMarketUpdateEvent(h, pool, ev).heap,
          pool |-> ReleaseMarketUpdateEvent(h, pool, ev).pool]

\* ev := event.AcquireMarketUpdateEvent(), returning address a.
SpotAcquire(a) ==
    /\ spotPc = "idle"
    /\ spotCount < MaxStamped
    /\ \E r \in {AcquireMarketUpdateEvent(heap, marketUpdatePool, a)} :
        /\ r.ok
        /\ heap' = r.heap
        /\ marketUpdatePool' = r.pool
    /\ held' = held \cup {a}
    /\ spotEv' = a
    /\ spotPc' = "acquired"
    /\ UNCHANGED <<orderUpdatePool, acquired, written, poolOp, spotInbox,
                   spotProcessing, spotCount, enqueuedSeqs, releasedSeqs, SpotFrame>>

\* ev.Seq = quant.NextSeq(w.seq) and the other five fields.
SpotPopulate ==
    /\ spotPc = "acquired"
    /\ heap' = [heap EXCEPT ![spotEv] =
                   [Seq |-> spotCount + 1, Ts |-> 7, Symbol |-> StrategySymbol,
                    PriceMicros |-> 3, QtySats |-> 5, Exchange |-> "BITGET_S"]]
    /\ spotCount' = spotCount + 1
    /\ spotPc' = "populated"
    /\ UNCHANGED <<held, marketUpdatePool, orderUpdatePool, acquired, written, poolOp,
                   spotEv, spotInbox, spotProcessing, enqueuedSeqs, releasedSeqs,
                   SpotFrame>>

\* The select at the end of handleMessage.
SpotSend ==
    /\ spotPc = "populated"
    /\ \E r \in {SendOrRelease(heap, marketUpdatePool, spotInbox, spotEv)} :
        /\ spotInbox' = r.inbox
        /\ heap' = r.heap
        /\ marketUpdatePool' = r.pool
        /\ enqueuedSeqs' = IF r.enqueued THEN enqueuedSeqs \cup {heap[spotEv].Seq}
                           ELSE enqueuedSeqs
        /\ releasedSeqs' = IF r.released THEN releasedSeqs \cup {heap[spotEv].Seq}
                           ELSE releasedSeqs
        /\ held' = IF r.released THEN held \ {spotEv} ELSE held
    /\ spotEv' = Nil
    /\ spotPc' = "idle"
    /\ UNCHANGED <<orderUpdatePool, acquired, written, poolOp, spotProcessing,
                   spotCount, SpotFrame>>

\* Run: case ev := <-s.inbox.
SpotReceive ==
    /\ spotProcessing = Nil
    /\ spotInbox # << >>
    /\ spotProcessing' = Head(spotInbox)
    /\ spotInbox' = Tail(spotInbox)
    /\ UNCHANGED <<poolVars, spotPc, spotEv, spotCount, enqueuedSeqs, releasedSeqs,
                   SpotFrame>>

\* processEvent returns; the sequencer keeps no reference and releases
\* nothing.
SpotProcessed ==
    /\ spotProcessing # Nil
    /\ spotProcessing' = Nil
    /\ UNCHANGED <<poolVars, spotPc, spotEv, spotInbox, spotCount, enqueuedSeqs,
                   releasedSeqs, SpotFrame>>

\* An object no one refers to is collected; New may allocate there again.
SpotCollect(a) ==
    /\ a \in DOMAIN heap
    /\ a \notin marketUpdatePool \cup Queued(spotInbox) \cup {spotEv, spotProcessing}
    /\ heap' = [k \in (DOMAIN heap) \ {a} |-> heap[k]]
    /\ held' = held \ {a}
    /\ UNCHANGED <<marketUpdatePool, orderUpdatePool, acquired, written, poolOp,
                   spotVars, SpotFrame>>

NextSpot ==
    \/ \E a \in MarketAddrs : SpotAcquire(a)
    \/ SpotPopulate
    \/ SpotSend
    \/ SpotReceive
    \/ SpotProcessed
    \/ \E a \in MarketAddrs : SpotCollect(a)

SpecSpot == Init /\ [][NextSpot]_vars

(***************************************************************************)
(* The strategy constructed with short periods from 0 up.                  *)
(***************************************************************************)
\* Short periods passed to the constructor, zero among them.
ShortPeriodDomain == 0 .. LongPeriod

NextPeriods ==
    \/ \E sp \in ShortPeriodDomain, lp \in PeriodDomain : Construct(sp, lp)
    \/ \E state \in StrategyInputs : Feed(state)

SpecPeriods == Init /\ [][NextPeriods]_vars

(***************************************************************************)
(* ValidateSequence over every pair of an expected and an event seq of the *)
(* word width.                                                             *)
(***************************************************************************)
ValidateFrame == <<cfg, liveVars, replayVars, readerVars, producerVars, poolVars,
                   balanceVars, smaVars, recoverVars, gatewayVars, priceVars, syncVars,
                   spotVars>>

\* s.ValidateSequence(evSeq) on a sequencer whose nextSeq is expected,
\* called once.
Validate(expected, evSeq) ==
    /\ vOut = NoValidate
    /\ vExpected' = expected
    /\ vSeq' = evSeq
    /\ vOut' = ValidateSequence(expected, evSeq)
    /\ UNCHANGED ValidateFrame

NextValidate == \E expected, evSeq \in 0 .. UintMod - 1 : Validate(expected, evSeq)

SpecValidate == Init /\ [][NextValidate]_vars

(***************************************************************************)
(* Properties.                                                             *)
(***************************************************************************)
\* The step in which Run takes the event at the head of the inbox and
\* processEvent handles it.
Handles == pc = "running" /\ inbox # << >> /\ received' = received + 1

StrictlyIncreasing(q) == \A i, j \in 1 .. Len(q) : i < j => q[i] < q[j]

\* C1: after a live run that did not end in a fatal stop, replaying the rows
\* it persisted, in ascending seq, through a fresh sequencer ends without a
\* fatal stop, with a markets map equal to the live run's and with the same
\* stream of strategy actions.
C1_ReplayEqualsLive ==
    pc = "stopped" =>
        /\ rpc # "fatal"
        /\ rpc = "done" => (rMarkets = markets /\ rActions = actions)

\* C2: an event whose seq is lower than next_seq is dropped by the live
\* path: no row is appended, markets is unchanged, neither the strategy nor
\* the observer is invoked, next_seq is unchanged.
C2_DuplicateDropped ==
    [][(Handles /\ Head(inbox).seq < nextSeq) =>
          /\ wal' = wal
          /\ saveCalls' = saveCalls
          /\ markets' = markets
          /\ stratCalls' = stratCalls
          /\ notes' = notes
          /\ nextSeq' = nextSeq]_vars

\* C3: between events of a live run next_seq is the seq of the most recently
\* applied event plus one (1 before any event), and an applied event leaves
\* next_seq one above its value after the gap fast-forward.
C3_NextSeqFollowsApplied ==
    [][pc' # "halted" =>
          /\ nextSeq' = lastApplied' + 1
          /\ Handles => nextSeq' = ValidateSequence(nextSeq, Head(inbox).seq).nextSeq + 1]_vars

C5_FailedAppendLeavesState ==
    [][(Handles /\ lastPanic' = "PERSISTENCE_FAILURE") =>
          /\ pc' = "halted"
          /\ markets' = markets
          /\ nextSeq' = nextSeq
          /\ stratCalls' = stratCalls
          /\ notes' = notes]_vars

StepRank(x) ==
    CASE x = "validate" -> 0
      [] x = "persist" -> 1
      [] x = "mutate" -> 2
      [] x = "strategy" -> 3
      [] x = "notify" -> 4
      [] x = "advance" -> 5

InSteps(x) == \E i \in 1 .. Len(steps) : steps[i] = x

\* C6: the steps of one event are taken in the order append, mutate,
\* strategy, notify, each only after the earlier ones: a mutated entry has
\* its row in the store even when the run then stops, and the observer is
\* notified only of updates the strategy has returned from.
C6_StepOrder ==
    /\ \A i, j \in 1 .. Len(steps) : i < j => StepRank(steps[i]) < StepRank(steps[j])
    /\ InSteps("mutate") => (cfg.store => InSteps("persist"))
    /\ InSteps("strategy") => InSteps("mutate")
    /\ InSteps("notify") => (InSteps("mutate") /\ (cfg.strategy => InSteps("strategy")))
    /\ cfg.store =>
          \A k \in DOMAIN markets :
              \E i \in 1 .. Len(wal) :
                  /\ wal[i].typ = "MarketUpdate"
                  /\ wal[i].symbol = k
                  /\ wal[i].price = markets[k].price
                  /\ wal[i].qty = markets[k].qty
                  /\ wal[i].ts = markets[k].ts
    /\ cfg.strategy =>
          Len(notes) = IF lastPanic = "OVERFLOW" THEN stratCalls - 1 ELSE stratCalls

\* C6 witness: a MarketUpdate went through every step.
C6_Witness ==
    steps = << "validate", "persist", "mutate", "strategy", "notify", "advance" >>

\* C7: an event ahead of next_seq by more than the tolerance is rejected
\* before persistence: nothing is handed to the store, markets and next_seq
\* are unchanged, and the sequencer halts.
C7_FatalGapBeforePersistence ==
    [][(Handles /\ Head(inbox).seq > nextSeq /\ Head(inbox).seq - nextSeq > GapTolerance) =>
          /\ wal' = wal
          /\ saveCalls' = saveCalls
          /\ markets' = markets
          /\ nextSeq' = nextSeq
          /\ strat' = strat
          /\ notes' = notes
          /\ pc' = "halted"]_vars

\* C7 witness: the run halted on a fatal gap with state already built up.
C7_Witness ==
    /\ pc = "halted"
    /\ lastPanic = "SEQUENCE_GAP_FATAL"
    /\ markets # NoMarkets
    /\ Len(wal) = 1

\* C8: a sequencer that stops fatally while handling an event, on the live
\* path or in ReplayEvent, has written one dump holding its next_seq and
\* markets as they are at the stop; no dump is written otherwise, and a
\* halted run takes no further event.
C8_FatalStopDumpsOnce ==
    [][/\ pc' = "halted" => (Len(dumps') = 1 /\ dumps'[1] = DumpState(nextSeq', markets'))
       /\ rpc' = "fatal" =>
              \E i \in 1 .. Len(dumps') : dumps'[i] = DumpState(rNextSeq', rMarkets')
       /\ (pc' # "halted" /\ rpc' # "fatal") => dumps' = << >>
       /\ pc = "halted" => (received' = received /\ pc' = "halted")]_vars

\* C9: the seqs handed to the store's append are strictly increasing in
\* append order.
C9_AppendedSeqsIncrease == StrictlyIncreasing(saveCalls)

\* C10: ReplayEvent on an event whose seq differs from next_seq, in either
\* direction, is fatal and leaves markets, next_seq and the strategy state
\* unchanged.
C10_ReplayStrict ==
    [][(rpc = "replaying" /\ rpc' # "done" /\ replayVars' # replayVars /\ rCursor' # rNextSeq) =>
          /\ rpc' = "fatal"
          /\ rMarkets' = rMarkets
          /\ rNextSeq' = rNextSeq
          /\ rStrat' = rStrat
          /\ rActions' = rActions
          /\ rNotes' = rNotes]_vars

\* C10 witness: with state replayed, an event one behind next_seq was fatal.
C10_Witness ==
    /\ rpc = "fatal"
    /\ rNextSeq = 2
    /\ rCursor = 1
    /\ rMarkets # NoMarkets

\* The replay sequencer as the state record the operators take, with the
\* store a live sequencer in the same state would append to.
ReplayState == [nextSeq |-> rNextSeq, markets |-> rMarkets, strat |-> rStrat]

LiveTwin == [nextSeq |-> rNextSeq, markets |-> rMarkets, strat |-> rStrat, wal |-> << >>]

\* r, the result of ReplayEvent, against l, the result of processEvent.
SameTransition(r, l) ==
    /\ r.markets = l.markets
    /\ r.strat = l.strat
    /\ r.actions = l.actions
    /\ r.notes = l.notes
    /\ (l.panic = "none") = (r.panic = "none")
    /\ l.panic = "none" => (r.nextSeq = rNextSeq + 1 /\ l.nextSeq = rNextSeq + 1)

\* C11: a step of ReplayEvent leaves the store as it is, and in every state
\* the replay sequencer reaches, ReplayEvent on an event whose seq is
\* next_seq performs the transition the live path performs on that event
\* from the same state (its append succeeding): same markets, same strategy
\* state and actions, same notifications, next_seq + 1.
C11_ReplayAsLive ==
    [][/\ (rpc = "replaying" /\ rpc' # "done" /\ replayVars' # replayVars) =>
              (wal' = wal /\ saveCalls' = saveCalls)
       /\ \A e \in Events :
              SameTransition(ReplayEvent(cfg, ReplayState, [e EXCEPT !.seq = rNextSeq]),
                             processEvent(cfg, LiveTwin, [e EXCEPT !.seq = rNextSeq], TRUE))]_vars

\* C11 witness: two events were replayed in order, the observer was told of
\* both, and a third in-order event makes the strategy emit an action.
C11_Witness ==
    /\ rpc = "replaying"
    /\ rNextSeq = 3
    /\ Len(rNotes) = 2
    /\ \E e \in MarketUpdateEvents :
           ReplayEvent(cfg, ReplayState, [e EXCEPT !.seq = rNextSeq]).actions # NoActions

\* The step applies the MarketUpdate at the head of the inbox to symbol s.
AppliesUpdateTo(s) ==
    /\ Handles
    /\ Head(inbox).typ = "MarketUpdate"
    /\ Head(inbox).symbol = s
    /\ \E i \in 1 .. Len(steps') : steps'[i] = "mutate"

\* C12: GetMarketState(s) reports not-present as long as no MarketUpdate for
\* s has been applied; once one has, it returns s with the price, quantity
\* and timestamp of the latest applied MarketUpdate for s, and no other step
\* changes what it returns; no entry of the map is ever removed.
C12_SnapshotIsLatestUpdate ==
    [][/\ received = 0 => \A s \in Symbols : ~GetMarketState(markets, s).ok
       /\ DOMAIN markets \subseteq DOMAIN markets'
       /\ \A s \in Symbols :
              IF AppliesUpdateTo(s)
              THEN GetMarketState(markets', s) =
                       [ok |-> TRUE,
                        state |-> [symbol |-> s, price |-> Head(inbox).price,
                                   qty |-> Head(inbox).qty, ts |-> Head(inbox).ts]]
              ELSE GetMarketState(markets', s) = GetMarketState(markets, s)]_vars

\* C12 witness: one symbol was updated twice and reads as its second update,
\* the other was never updated and reads as not present.
C12_Witness ==
    /\ cfg.store
    /\ Len(wal) = 2
    /\ wal[1].symbol = "BTC-USDT" /\ wal[1].price = 1
    /\ wal[2].symbol = "BTC-USDT" /\ wal[2].price = 3
    /\ pc = "running"
    /\ GetMarketState(markets, "BTC-USDT").state.price = 3
    /\ ~GetMarketState(markets, "ETH-USDT").ok

\* The sequencer is inside an update of this symbol.
Updating(symbol) == hpc # "idle" /\ hev.symbol = symbol

\* What GetMarketState(symbol) returns before the update in progress, and
\* after it.
StateBefore(symbol) ==
    IF Updating(symbol) THEN hpre ELSE GetMarketState(markets, symbol)

StateAfter(symbol) ==
    IF Updating(symbol)
    THEN [ok |-> TRUE,
          state |-> [symbol |-> symbol, price |-> hev.price, qty |-> hev.qty, ts |-> hev.ts]]
    ELSE GetMarketState(markets, symbol)

\* C13: a GetMarketState call overlapping the handling of a MarketUpdate
\* for the same symbol returns the complete state before the update or the
\* complete state after it, and is never a map read racing with the
\* insertion of a new symbol.
C13_SnapshotNotTorn ==
    [][snap' # snap =>
          /\ ~snap'.fault
          /\ [ok |-> snap'.ok, state |-> snap'.state]
                 \in {StateBefore(snap'.symbol), StateAfter(snap'.symbol)}]_vars

\* The MarketState a pointer handed to the observer for this symbol points
\* to: the map's entry, which is created once and never replaced.
Deref(m, symbol) == m[symbol]

\* C14: a MarketState an external observer obtained, from GetMarketState or
\* as the argument of the update callback, keeps its fields when the
\* sequencer goes on processing events.
C14_ObserverHoldsCopy ==
    [][/\ hpc' # hpc => snap' = snap
       /\ \A i \in 1 .. Len(notes) : Deref(markets', notes[i].symbol) = notes[i]]_vars

\* C15: once the context is cancelled Run takes no further event from the
\* inbox, whatever is queued there.
C15_NoReceiveAfterCancel ==
    [][cancelled => (received' = received /\ (inbox' = inbox \/ Len(inbox') > Len(inbox)))]_vars

\* C17: an OrderUpdate or an event of unknown variant whose seq is next_seq
\* leaves markets unchanged and reaches neither the strategy nor the
\* observer, and, its append succeeding, next_seq is one higher.
C17_OtherEventsOnlyAdvance ==
    [][(Handles /\ Head(inbox).typ # "MarketUpdate" /\ Head(inbox).seq = nextSeq) =>
          /\ markets' = markets
          /\ strat' = strat
          /\ stratCalls' = stratCalls
          /\ actions' = actions
          /\ notes' = notes
          /\ lastPanic' \in {"none", "PERSISTENCE_FAILURE"}
          /\ lastPanic' = "none" => (nextSeq' = nextSeq + 1 /\ pc' = "running")
          /\ lastPanic' = "PERSISTENCE_FAILURE" => nextSeq' = nextSeq]_vars

\* C17 witness: after a MarketUpdate, an OrderUpdate and nothing else was
\* handled, in order, with a store.
C17_Witness ==
    /\ cfg.store
    /\ Len(wal) = 2
    /\ wal[1].typ = "MarketUpdate" /\ wal[1].seq = 1
    /\ wal[2].typ = "OrderUpdate" /\ wal[2].seq = 2
    /\ nextSeq = 3
    /\ pc = "running"
    /\ DOMAIN markets = {wal[1].symbol}

\* C16: after the context is cancelled Run returns in the end, without a
\* fatal stop and without a dump, whatever the inbox holds.
C16_CancelledRunReturns == cancelled ~> (pc = "stopped" /\ dumps = << >>)

\* Pool events waiting in the inbox.
PoolQueued == Cardinality({i \in 1 .. Len(inbox) : inbox[i].typ = "MarketUpdate"})

\* C20: every event acquired from the pool and accepted into the inbox is
\* released to the pool by the sequencer once it has processed it: when Run
\* has taken pool events from the inbox and gone on, in the end none but
\* those still queued is out of the pool.
C20_ProcessedEventsReleased ==
    (pc = "running" /\ poolOut > PoolQueued) ~> (poolOut <= PoolQueued)

\* C18: the inbox never holds more than its capacity, and a producer that
\* has built an event can always complete its send at once, by enqueueing
\* or, the inbox being full, by dropping: none waits on a full inbox.
C18_ProducersNeverBlock ==
    /\ Len(inbox) <= InboxSize
    /\ \A p \in Producers :
           (ppc[p] = "sending" /\ pc \in {"running", "stopped"}) => ENABLED Offer(p)

\* C19: the numbers the producers got from the shared counter are pairwise
\* distinct, and those of one producer are strictly increasing.
C19_AllocatedSeqsDistinct ==
    /\ \A p \in Producers : StrictlyIncreasing(alloc[p])
    /\ \A p, q \in Producers :
           \A i \in 1 .. Len(alloc[p]) :
               \A j \in 1 .. Len(alloc[q]) :
                   (p # q \/ i # j) => alloc[p][i] # alloc[q][j]

\* C19 witness: two producers drew numbers in turn, one of them twice, and
\* both are about to send.
C19_Witness ==
    /\ alloc["upbit"] = << 1, 3 >>
    /\ alloc["spot"] = << 2 >>
    /\ ppc["upbit"] = "sending"
    /\ ppc["spot"] = "sending"

\* C21: whatever acquires, writes by holders and releases came before, the
\* event an acquire returns has every field at its zero value (Seq, Ts,
\* Symbol, PriceMicros, QtySats, Exchange for a MarketUpdateEvent; Seq, Ts,
\* OrderID, Status, PriceMicros, AccumulatedQtySats for an OrderUpdateEvent),
\* and a release of nil leaves the heap, both pools and every held reference
\* as they were.
C21_AcquiredEventsAreZero ==
    [][ /\ (poolOp' = "acquire" /\ acquired'.addr \in MarketAddrs)
            => acquired'.ev = ZeroMarketUpdateEvent
        /\ (poolOp' = "acquire" /\ acquired'.addr \in OrderAddrs)
            => acquired'.ev = ZeroOrderUpdateEvent
        /\ poolOp' = "releaseNil"
            => UNCHANGED <<heap, held, marketUpdatePool, orderUpdatePool>> ]_vars

\* An acquire has returned an object that a holder populated and released
\* before.
C21_Witness ==
    /\ poolOp = "acquire"
    /\ acquired.recycled
    /\ acquired.addr \in written
    /\ acquired.addr \in MarketAddrs

\* C22: while the program runs, that is after every Credit, Debit, Reserve
\* or Release that returned, the balance has AmountSats >= 0,
\* ReservedSats >= 0 and ReservedSats <= AmountSats; a call that would leave
\* anything else panics.
C22_ReturnedCallsKeepInvariant ==
    balPc = "running" => VerifyInvariant(bal) = "none"

\* C23: a Debit or Reserve of more than AmountSats - ReservedSats and a
\* Release of more than ReservedSats panic and leave AmountSats,
\* ReservedSats and LastSeq as they were; a Debit that returns leaves
\* AmountSats no smaller than ReservedSats, which it does not change.
C23_ShortfallIsFatal ==
    [][ /\ ( /\ balOp'.op \in {"Debit", "Reserve"}
             /\ balOp'.amountSats > bal.AmountSats - bal.ReservedSats )
            => (balOp'.panic # "none" /\ balPc' = "halted" /\ bal' = bal)
        /\ (balOp'.op = "Release" /\ balOp'.amountSats > bal.ReservedSats)
            => (balOp'.panic # "none" /\ balPc' = "halted" /\ bal' = bal)
        /\ (balOp'.op = "Debit" /\ balOp'.panic = "none")
            => /\ bal'.ReservedSats = bal.ReservedSats
               /\ bal'.AmountSats >= bal'.ReservedSats ]_vars

\* A Debit of an amount the balance holds, part of it reserved, has
\* panicked.
C23_Witness ==
    /\ balOp.op = "Debit"
    /\ balOp.panic = "BALANCE_INSUFFICIENT"
    /\ bal.ReservedSats > 0
    /\ balOp.amountSats > 0
    /\ balOp.amountSats <= bal.AmountSats
    /\ balPc = "halted"

\* The sum of f[1] .. f[n].
RECURSIVE SumTo(_, _)
SumTo(f, n) == IF n = 0 THEN 0 ELSE f[n] + SumTo(f, n - 1)

\* The last n elements of q.
LastN(q, n) == SubSeq(q, Len(q) - n + 1, Len(q))

Min(a, b) == IF a <= b THEN a ELSE b

\* C24: after every OnMarketUpdate that returned, s.sum is the sum of the
\* last min(count, longPeriod) prices of the configured symbol fed so far,
\* and is the sum of the values stored in s.prices.
C24_SumIsWindowSum ==
    smaPc = "ready" =>
        /\ sma.sum = SumTo(LastN(fed, Min(sma.count, sma.longPeriod)),
                           Min(sma.count, sma.longPeriod))
        /\ sma.sum = SumTo(sma.prices, sma.longPeriod)

\* The buffer has wrapped: more prices were fed than it holds, and the ones
\* overwritten did not sum to zero.
C24_Witness ==
    /\ smaPc = "ready"
    /\ smaOut.op = "update"
    /\ smaOut.symbol = sma.symbol
    /\ Len(fed) > sma.longPeriod
    /\ sma.sum # SumTo(fed, Len(fed))

\* C25: an OnMarketUpdate called when fewer than longPeriod prices of the
\* configured symbol had been received before it returns no actions,
\* whatever the prices are.
C25_NoActionsBeforeFull ==
    (smaOut.op = "update" /\ smaOut.symbol = sma.symbol /\ Len(fed) <= sma.longPeriod)
        => smaOut.actions = NoActions

\* A call that returned while the buffer was still filling, after prices
\* that rose and fell.
C25_Witness ==
    /\ smaPc = "ready"
    /\ smaOut.op = "update"
    /\ smaOut.symbol = sma.symbol
    /\ Len(fed) = 2
    /\ sma.longPeriod = 3
    /\ sma.count < sma.longPeriod
    /\ fed[1] # fed[2]
    /\ fed[1] # 0 /\ fed[2] # 0

\* The most recent call was an OnMarketUpdate for the configured symbol and
\* it returned.
Returned == smaPc = "ready" /\ smaOut.op = "update" /\ smaOut.symbol = sma.symbol

\* The sum of the last n prices fed.
WindowSum(n) == SumTo(LastN(fed, n), n)

\* C26: when an OnMarketUpdate returns with the buffer full and both
\* previous averages were non-zero, it returns exactly one BUY if
\* prevShort <= prevLong and short > long now, exactly one SELL if
\* prevShort >= prevLong and short < long now, and nothing otherwise (the
\* two cases exclude each other); the action carries the configured symbol,
\* the price of this update and quantity 10000; and the previous averages
\* are now the current ones.
C26_CrossEmitsOneAction ==
    ( /\ Returned
      /\ sma.count = sma.longPeriod
      /\ smaOut.before.prevShortSMA # 0
      /\ smaOut.before.prevLongSMA # 0 )
    => LET prevShort == smaOut.before.prevShortSMA
           prevLong == smaOut.before.prevLongSMA
           short == TruncDiv(WindowSum(sma.shortPeriod), sma.shortPeriod)
           long == TruncDiv(WindowSum(sma.longPeriod), sma.longPeriod)
           buy == prevShort <= prevLong /\ short > long
           sell == prevShort >= prevLong /\ short < long
       IN  /\ ~(buy /\ sell)
           /\ buy => smaOut.actions =
                        << [type |-> "BUY", symbol |-> StrategySymbol,
                            price |-> smaOut.price, qty |-> 10000] >>
           /\ sell => smaOut.actions =
                        << [type |-> "SELL", symbol |-> StrategySymbol,
                            price |-> smaOut.price, qty |-> 10000] >>
           /\ (~buy /\ ~sell) => smaOut.actions = << >>
           /\ sma.prevShortSMA = short
           /\ sma.prevLongSMA = long

\* A golden cross from equal previous averages has produced a BUY.
C26_Witness ==
    /\ Returned
    /\ sma.count = sma.longPeriod
    /\ smaOut.before.prevShortSMA # 0
    /\ smaOut.before.prevShortSMA = smaOut.before.prevLongSMA
    /\ Len(smaOut.actions) = 1
    /\ smaOut.actions[1].type = "BUY"

\* q is a / b rounded toward zero, for b > 0.
TowardZero(q, a, b) ==
    IF a >= 0 THEN q >= 0 /\ q * b <= a /\ a < (q + 1) * b
    ELSE q <= 0 /\ q * b >= a /\ a > (q - 1) * b

\* C27: when an OnMarketUpdate returns with the buffer full, the long
\* average it computed is the sum of the last longPeriod prices divided by
\* longPeriod and the short average is the sum of the last shortPeriod
\* prices divided by shortPeriod, both rounded toward zero, wherever the
\* head of the ring buffer stands.
C27_AveragesOverLastPrices ==
    (Returned /\ sma.count = sma.longPeriod)
    => /\ TowardZero(sma.prevLongSMA, WindowSum(sma.longPeriod), sma.longPeriod)
       /\ TowardZero(sma.prevShortSMA, WindowSum(sma.shortPeriod), sma.shortPeriod)

\* The short window wraps around the end of the buffer and the two sums are
\* negative and not multiples of the periods.
C27_Witness ==
    /\ Returned
    /\ sma.count = sma.longPeriod
    /\ sma.head > 0
    /\ sma.head < sma.shortPeriod
    /\ WindowSum(sma.longPeriod) < 0
    /\ WindowSum(sma.longPeriod) % sma.longPeriod # 0
    /\ WindowSum(sma.shortPeriod) < 0
    /\ WindowSum(sma.shortPeriod) % sma.shortPeriod # 0

\* C28: NewSMACrossStrategy called with shortPeriod >= longPeriod panics and
\* the caller is left without an instance; every instance there is has
\* shortPeriod < longPeriod.
C28_BadPeriodsRejected ==
    /\ (smaOut.op = "new" /\ smaOut.shortPeriod >= smaOut.longPeriod)
        => (smaOut.panic /\ smaPc = "rejected" /\ sma = NoStrategy)
    /\ smaPc \in {"ready", "halted"} => sma.shortPeriod < sma.longPeriod

\* The constructor was called with equal periods and produced no instance.
C28_Witness ==
    /\ smaOut.op = "new"
    /\ smaOut.shortPeriod = smaOut.longPeriod
    /\ smaPc = "rejected"

\* C30: an OnMarketUpdate for a symbol other than the configured one
\* returns no actions and leaves prices, head, count, sum, prevShortSMA and
\* prevLongSMA as they were.
C30_OtherSymbolIgnored ==
    (smaOut.op = "update" /\ smaOut.symbol # sma.symbol)
    => /\ smaPc = "ready"
       /\ smaOut.actions = NoActions
       /\ sma = smaOut.before

\* The strategy was given an update for another symbol that, had it been
\* for its own symbol, would have produced an action.
C30_Witness ==
    /\ smaOut.op = "update"
    /\ smaOut.symbol # sma.symbol
    /\ sma.count = sma.longPeriod
    /\ OnMarketUpdate(smaOut.before,
                      [symbol |-> sma.symbol, price |-> smaOut.price,
                       qty |-> 5, ts |-> 7]).actions # NoActions

\* C29: in the sequencer that halts on every gap, processEvent given an
\* event whose seq differs from nextSeq, ahead or behind, panics before
\* anything is persisted or applied: SaveEvent is not called, no row is
\* added to the store, and markets, the strategy and nextSeq stay as they
\* were.
C29_StrictGapIsFatal ==
    [][ (Handles /\ Head(inbox).seq # nextSeq)
        => /\ pc' = "halted"
           /\ lastPanic' = "SEQUENCE_GAP_DETECTED"
           /\ UNCHANGED <<wal, saveCalls, markets, strat, nextSeq, notes, actions>> ]_vars

\* With a store, after one event was persisted and applied, an event with
\* another seq than the next one has halted the sequencer.
C29_Witness ==
    /\ cfg.store
    /\ pc = "halted"
    /\ lastPanic = "SEQUENCE_GAP_DETECTED"
    /\ nextSeq = 2
    /\ Len(wal) = 1
    /\ received = 2

\* C31: once RecoverState(n) has returned, and until an event is taken from
\* the inbox, nextSeq is n + 1 and markets is what it was (empty), with and
\* without a store; the event with seq n + 1 is then in order.
C31_RecoverSetsNextSeq ==
    (recovered # -1 /\ received = 0)
        => /\ nextSeq = (recovered + 1) % UintMod
           /\ markets = NoMarkets

\* C32: once Disconnect has returned, connectionLoop has returned, every
\* connection dialled is closed, w.conn is nil and IsConnected reports
\* false, however Disconnect interleaved with a connect in progress.
C32_DisconnectLeavesNothingOpen ==
    dpc = "returned"
        => /\ lpc = "done"
           /\ wconn = 0
           /\ closedConns = 1 .. dials
           /\ ~IsConnected

\* C38: readLoop never calls ReadMessage through a nil connection
\* reference, whatever closeConnection or Disconnect does in another
\* goroutine between its check under the read lock and its read.
C38_ReadLoopNeverReadsNil == lpc # "nilDeref"

\* C39: at most one pingLoop goroutine runs per worker at any time, however
\* many times the worker reconnects.
C39_AtMostOnePingLoop == pings <= 1

\* C33: every symbol holding an Upbit ticker and a Bitget-spot ticker, with
\* spot * rate non-zero, stores the premium computed with the current
\* exchange rate, also right after UpdateExchangeRate.
C33_PremiumAtCurrentRate ==
    \A sym \in PriceSymbols :
        LET data == marketData[sym] IN
        (data.Upbit.set /\ data.BitgetS.set /\ data.BitgetS.Price * exchangeRate # 0)
            => /\ data.Premium.set
               /\ data.Premium.v =
                    PremiumAt(data.Upbit.Price, data.BitgetS.Price, exchangeRate)

\* Goroutines between acquiring and releasing the semaphore.
Holding == {g \in 1 .. NumSymbols : gpc[g] \in {"holding", "worked"}}

\* C34: at most 5 goroutines of SyncAssets are between acquiring and
\* releasing the semaphore; a goroutine that took the cancellation branch
\* did no work and holds or released no slot; SyncAssets has returned only
\* when every goroutine it started has finished.
C34_SyncAssetsBounded ==
    /\ Cardinality(Holding) <= 5
    /\ semaphore = Cardinality(Holding)
    /\ \A g \in sawCancel : g \notin worked /\ gpc[g] = "done"
    /\ syncPc = "returned" => \A g \in 1 .. NumSymbols : gpc[g] = "done"
C34_Witness ==
    /\ syncPc = "returned"
    /\ sawCancel # {}
    /\ Cardinality(worked) = SemaphoreCap

\* C35: with several producers drawing their seq from the shared counter and
\* then enqueueing, every event Run takes from the inbox has a seq that is
\* not lower than next_seq: the sequencer has not fast-forwarded past an
\* event that is delivered later.
C35_DequeuedInSeqOrder ==
    [][Handles => Head(inbox).seq >= nextSeq]_vars

\* C36: an event queued in the inbox or being processed by the sequencer
\* is not in the pool and still carries what the producer wrote; the
\* producer released only events whose send failed, and no event was both
\* enqueued and released.
C36_QueuedEventsNotPooled ==
    /\ \A a \in (Queued(spotInbox) \cup {spotProcessing}) \ {Nil} :
           /\ a \notin marketUpdatePool
           /\ heap[a].Seq \in enqueuedSeqs
    /\ enqueuedSeqs \cap releasedSeqs = {}
C36_Witness ==
    /\ spotInbox # << >>
    /\ spotProcessing # Nil
    /\ releasedSeqs # {}
    /\ spotCount = MaxStamped

\* C37: an instance NewSMACrossStrategy returned has both periods at least
\* 1, so that OnMarketUpdate divides by no zero and indexes the ring buffer
\* within 0 .. L - 1; an instance with a zero period never stops fatally in
\* OnMarketUpdate because none exists.
C37_AcceptedPeriodsAtLeastOne ==
    smaPc \in {"ready", "halted"} => (sma.shortPeriod >= 1 /\ sma.longPeriod >= 1)

\* C40: ValidateSequence takes an event for old or duplicate only when its
\* seq is lower than next_seq as unsigned numbers, and stops fatally for
\* every seq that is ahead of next_seq by more than the tolerance as
\* unsigned numbers, the seqs whose top bit is set included.
C40_UnsignedClassification ==
    /\ vOut.log = "SEQUENCE_DUPLICATE_IGNORED" => vSeq < vExpected
    /\ vSeq > vExpected + GapTolerance => vOut.panic

====
